---- MODULE Spec2Model ----
(***************************************************************************)
(* The playlist tools of IPTVmigu as state machines:                       *)
(*   scripts/m3u_merger.py    exact (name, group) merge of several files   *)
(*   scripts/m3u_mergerng.py  normalized-name merge of one file            *)
(*   scripts/extract.py       keyword filter                               *)
(* A playlist line is a record; its kind stands for the prefix tests the   *)
(* code makes on the stripped line, its other fields for the parts the     *)
(* regular expressions of the code extract.                                *)
(***************************************************************************)
EXTENDS Integers, Sequences, FiniteSets, TLC

VARIABLES
  \* ---- m3u_merger.py
  suite,                \* the family of lines the input files are drawn from
  parse,                \* locals of parse_single_m3u for the file being read
  nlines,               \* lines read of the file being read
  nfiles,               \* files merged so far
  current_order_list,   \* parse result of the file merged last
  current_map,
  current_header,
  remerged,             \* the file merged last was merged twice in a row
  final_channels_data,  \* main(): group -> [channels, order_list]
  group_global_order,
  final_header,
  output_lines,         \* the text written, as a list of lines
  reparsed,             \* parse_single_m3u of output_lines
  mpc,                  \* "read" | "written" | "reparsed"
  \* what the files merged so far contained (history, not program state)
  ref_cur,              \* metadata line the addresses being read belong to
  ref_adj,              \* no directive line was read since that metadata line
  fed_file,             \* <<name, group, url, adjacent>> of the file being read
  fed,                  \* <<name, group, url, adjacent>> of the files merged
  pair_file,            \* <<name, group>> -> metadata line of its last pair
  pair_info,
  first_header,         \* history: the first header line read, over all files
  skipped,              \* an input of the list did not exist and was skipped
  \* ---- m3u_mergerng.py
  ng_suite,             \* the set of lines the input file is drawn from
  no_config,            \* --no-config
  keep_order,           \* --keep-order
  ngparse,              \* locals of parse_m3u
  ng_nlines,            \* lines read
  final_list,           \* main(): the classified and sorted records
  ng_output,            \* the text safe_write_output wrote
  ng_reparsed,          \* parse_m3u of ng_output
  npc,                  \* "read" | "written" | "reparsed"
  merged_into,          \* history: name of a parsed record -> key it went to
  first_seen,           \* history: key -> its addresses in the order first seen
  ng_first_header,      \* history: the first header line of the input
  \* ---- extract.py
  ex_lines,             \* the stripped non-empty lines of the input file
  ex_mode,              \* "and" (--eandu) | "or" (--eoru)
  ex_arg,               \* the text given to --eandu or --eoru
  ex_no_config,         \* -n
  remove_mode,          \* -r
  keywords,             \* kw1_and_kw2 or kw1_or_kw2, None when not set
  ex_i,                 \* i of the loop over the lines (0-based)
  ordered_record_pairs,
  seen_record_pairs,
  result,               \* what extract_keyword_lines returned
  epc,                  \* "start" | "loop" | "done"
  match_log,            \* history: the records met and what the match gave
  runs,                 \* history: calls of extract_keyword_lines so far
  prev_kept,            \* history: seen_record_pairs of the call before
  \* ---- extract.py, __main__ and the files it touches
  readable,             \* open(filepath) and the decoding succeed
  same_file,            \* --output names the file of --input
  ex_force,             \* --force
  dest_before,          \* the file at --output before the run
  dest,                 \* the file at --output
  temp_file,            \* the file mkstemp made
  temp_path,            \* safe_write_output's temp_path is not None
  written,              \* lines of data written to out_f so far
  ipc,                  \* position in __main__
  exit_code,            \* NotExited while running
  \* ---- rdfinurl.py
  rd_input,             \* the lines of the input file as they stand in it
  rd_refused,           \* the output exists, is not the input, no --force
  rd_lines,             \* process_m3u_file: lines
  url_to_line_indices,
  max_retries,
  rd_urls,              \* resolve_urls_with_retry: urls
  resolved_info,
  retries,
  failed_urls,
  pending,              \* positions in urls whose future has not completed
  rounds,               \* history: rounds begun
  rd_output,            \* the text safe_write_output wrote
  rpc,                  \* position in process_m3u_file
  probes,               \* history: the probes completed, each with its round and result
  \* ---- the parsers, each applied to one whole file
  pf_tool,              \* "m3u_merger" | "m3u_mergerng"
  pf_file,              \* the stripped lines of the file
  pf_parsed,            \* what the parser returned
  ppc,                  \* "start" | "parsed"
  \* ---- _check_match of extract.py, called on its own
  cm_text,              \* text
  cm_keyword,           \* keyword_str
  cm_result,            \* what it returned
  cpc                   \* "start" | "returned"

mvars == <<suite, parse, nlines, nfiles, current_order_list, current_map,
           current_header, remerged,
           final_channels_data, group_global_order, final_header,
           output_lines, reparsed, mpc, ref_cur, ref_adj, fed_file, fed,
           pair_file, pair_info,
           first_header, skipped>>

nvars == <<ng_suite, no_config, keep_order, first_seen, ng_first_header, ngparse, ng_nlines, final_list, ng_output,
           ng_reparsed, npc, merged_into>>

evars == <<ex_lines, ex_mode, ex_arg, ex_no_config, remove_mode, keywords, ex_i,
           ordered_record_pairs, seen_record_pairs, result, epc, match_log,
           runs, prev_kept>>

ivars == <<readable, same_file, ex_force, dest_before, dest, temp_file,
           temp_path, written, ipc, exit_code>>

rvars == <<rd_input, rd_refused, rd_lines, url_to_line_indices, max_retries,
           rd_urls, resolved_info, retries, failed_urls, pending, rounds,
           rd_output, rpc, probes>>

pvars == <<pf_tool, pf_file, pf_parsed, ppc, cm_text, cm_keyword, cm_result, cpc>>

vars == <<mvars, nvars, evars, ivars, rvars, pvars>>

\* ------------------------------------------------------------------ bounds
MaxLines == 4      \* lines per input file
MaxFiles == 2      \* input files per run
MaxNgLines == 4    \* lines of the input file of m3u_mergerng
MaxNameLen == 2    \* characters of a display name
MaxArgLen == 3     \* characters of a --eandu / --eoru argument
MaxExLines == 3    \* lines of the input file of extract.py
MaxRdLines == 2    \* lines of the input file of rdfinurl.py
MaxRetries == 1    \* --retries
MaxPfLines == 4    \* lines of a file parsed whole
MaxKwLen == 4      \* characters of a keyword expression

\* ------------------------------------------------------------ python values
None == "<None>"
EmptyMap == [x \in {} |-> x]

\* list.index(x), 0-based; -1 stands for ValueError
RECURSIVE index_from(_, _, _)
index_from(lst, x, i) ==
  IF i > Len(lst) THEN -1
  ELSE IF lst[i] = x THEN i - 1
  ELSE index_from(lst, x, i + 1)

list_index(lst, x) == index_from(lst, x, 1)

\* list.insert(i, x) for 0 <= i; an index past the end appends
list_insert(lst, i, x) ==
  LET k == IF i > Len(lst) THEN Len(lst) ELSE i
  IN SubSeq(lst, 1, k) \o <<x>> \o SubSeq(lst, k + 1, Len(lst))

\* sorted(list(s)) of a set of addresses; an address is its rank in the
\* lexicographic order of the address strings
RECURSIVE sorted(_)
sorted(s) ==
  IF s = {} THEN <<>>
  ELSE LET m == CHOOSE x \in s : \A y \in s : x <= y
       IN <<m>> \o sorted(s \ {m})

\* ------------------------------------------------------------------- lines
NoAttr == "<absent>"     \* the line has no group-title attribute

Ln(k, n, g, t, u) == [kind |-> k, name |-> n, grp |-> g, tvg |-> t, url |-> u]
NoLine == Ln("", "", "", 0, 0)
\* "#EXTINF:<t> [group-title="g"],n": t stands for the other attributes,
\* n for the text after the first comma ("" when there is none)
Extinf(n, g, t) == Ln("#EXTINF:", n, g, t, 0)
Http(u)    == Ln("http", "", "", 0, u)        \* http:// or https:// address
Hash(t)    == Ln("#", "", "", t, 0)           \* another '#' line (#EXTVLCOPT)
Extm3u(t)  == Ln("#EXTM3U", "", "", t, 0)     \* header line
Text(t)    == Ln("text", "", "", t, 0)        \* any other line

\* the input families of m3u_merger
OrderLines == { Extinf(n, "g1", 1) : n \in {"X", "Y", "A", "B"} }
UrlLines   == { Extinf("X", "g1", 1), Extinf("X", "g1", 2), Http(1), Http(2), Hash(1) }
KeyLines   == { Extinf("X", "g1", 1), Extinf("X", "g2", 1), Extinf("Y", "g1", 1), Http(1) }
HeadLines  == { Extm3u(1), Extm3u(2), Extinf("X", "g1", 1) }
Suites == {"order", "urls", "keys", "heads"}
LinesOf(s) == IF s = "order" THEN OrderLines ELSE IF s = "urls" THEN UrlLines
              ELSE IF s = "keys" THEN KeyLines ELSE HeadLines

\* ---------------------------------------------------------- m3u_merger.py
extract_group_title(info_line) ==
  IF info_line.grp = NoAttr THEN "" ELSE info_line.grp

\* re.search(r',(.+)$', line): the text after the first comma
extract_name(line) == IF line.name = "" THEN None ELSE line.name

InitParse ==
  [channels_map |-> EmptyMap, order_list |-> <<>>, header |-> NoLine,
   current_info_line |-> NoLine, current_channel_name |-> None,
   current_group_title |-> None]

\* one iteration of the loop over lines of parse_single_m3u
parse_line(s, line) ==
  IF line.kind = "#EXTM3U"
  THEN [s EXCEPT !.header = IF @ = NoLine THEN line ELSE @]
  ELSE IF line.kind = "#EXTINF:"
  THEN LET nm == extract_name(line)
           g  == extract_group_title(line)
           s1 == [s EXCEPT !.current_info_line = line,
                           !.current_channel_name = nm,
                           !.current_group_title = g]
           channel_key == <<nm, g>>
       IN IF nm = None THEN s1
          ELSE IF channel_key \notin DOMAIN s.channels_map
          THEN [s1 EXCEPT
                  !.channels_map = @ @@ (channel_key :> [info |-> line, urls |-> {}]),
                  !.order_list = Append(@, channel_key)]
          ELSE [s1 EXCEPT !.channels_map[channel_key].info = line]
  ELSE IF line.kind = "http"
  THEN IF s.current_channel_name # None /\ s.current_group_title # None
       THEN LET channel_key == <<s.current_channel_name, s.current_group_title>>
            IN IF channel_key \in DOMAIN s.channels_map
               THEN [s EXCEPT !.channels_map[channel_key].urls = @ \cup {line.url}]
               ELSE s
       ELSE s
  ELSE [s EXCEPT !.current_channel_name = None, !.current_group_title = None]

RECURSIVE parse_from(_, _)
parse_from(s, lines) ==
  IF lines = <<>> THEN s ELSE parse_from(parse_line(s, Head(lines)), Tail(lines))

parse_single_m3u(lines) == parse_from(InitParse, lines)

\* main(), step A: the groups of the file in order of first appearance
RECURSIVE groups_of(_)
groups_of(order) ==
  IF order = <<>> THEN <<>>
  ELSE LET r == groups_of(SubSeq(order, 1, Len(order) - 1))
           g == order[Len(order)][2]
       IN IF list_index(r, g) = -1 THEN Append(r, g) ELSE r

group_items(order, g) == SelectSeq(order, LAMBDA k : k[2] = g)

NewGroup == [channels |-> EmptyMap, order_list |-> <<>>]

\* the relative insertion, a known channel being entered in the order list
\* once more
RECURSIVE merge_items_reentering(_, _, _, _)
merge_items_reentering(items, cmap, gd, last_known_channel_index) ==
  IF items = <<>> THEN gd
  ELSE LET channel_key == Head(items)
           channel_name == channel_key[1]
           data == cmap[channel_key]
           insert_index == last_known_channel_index + 1
           gd2 == [channels |-> IF channel_name \in DOMAIN gd.channels
                                THEN [gd.channels EXCEPT ![channel_name] =
                                        [info |-> data.info, urls |-> @.urls \cup data.urls]]
                                ELSE gd.channels @@
                                     (channel_name :> [info |-> data.info, urls |-> data.urls]),
                   order_list |-> list_insert(gd.order_list, insert_index, channel_name)]
       IN merge_items_reentering(Tail(items), cmap, gd2, insert_index)

\* main(), step B.2: the relative insertion of one group of the file
RECURSIVE merge_items(_, _, _, _)
merge_items(items, cmap, gd, last_known_channel_index) ==
  IF items = <<>> THEN gd
  ELSE LET channel_key == Head(items)
           channel_name == channel_key[1]
           data == cmap[channel_key]
       IN IF channel_name \in DOMAIN gd.channels
          THEN LET idx == list_index(gd.order_list, channel_name)
                   gd2 == [gd EXCEPT !.channels[channel_name] =
                              [info |-> data.info, urls |-> @.urls \cup data.urls]]
               IN merge_items(Tail(items), cmap, gd2,
                              IF idx = -1 THEN last_known_channel_index ELSE idx)
          ELSE LET insert_index == last_known_channel_index + 1
                   gd2 == [channels |-> gd.channels @@
                              (channel_name :> [info |-> data.info, urls |-> data.urls]),
                           order_list |-> list_insert(gd.order_list, insert_index,
                                                      channel_name)]
               IN merge_items(Tail(items), cmap, gd2, insert_index)

\* every group of the file into the accumulator, a group not seen before
\* being entered in front of the groups seen so far
RECURSIVE merge_groups_new_first(_, _, _, _)
merge_groups_new_first(gs, order, cmap, acc) ==
  IF gs = <<>> THEN acc
  ELSE LET group_title == Head(gs)
           known == group_title \in DOMAIN acc.data
           gd == IF known THEN acc.data[group_title] ELSE NewGroup
           gd2 == merge_items(group_items(order, group_title), cmap, gd, -1)
           acc2 == [data |-> IF known THEN [acc.data EXCEPT ![group_title] = gd2]
                             ELSE acc.data @@ (group_title :> gd2),
                    order |-> IF known THEN acc.order ELSE <<group_title>> \o acc.order]
       IN merge_groups_new_first(Tail(gs), order, cmap, acc2)

\* main(), step B: every group of the file into the accumulator
RECURSIVE merge_groups(_, _, _, _)
merge_groups(gs, order, cmap, acc) ==
  IF gs = <<>> THEN acc
  ELSE LET group_title == Head(gs)
           known == group_title \in DOMAIN acc.data
           gd == IF known THEN acc.data[group_title] ELSE NewGroup
           gd2 == merge_items(group_items(order, group_title), cmap, gd, -1)
           acc2 == [data |-> IF known THEN [acc.data EXCEPT ![group_title] = gd2]
                             ELSE acc.data @@ (group_title :> gd2),
                    order |-> IF known THEN acc.order ELSE Append(acc.order, group_title)]
       IN merge_groups(Tail(gs), order, cmap, acc2)

merge_file(order, cmap, acc) == merge_groups(groups_of(order), order, cmap, acc)

\* the output lines, only the first address of a channel being written
RECURSIVE emit_names_first_url(_, _)
emit_names_first_url(names, gd) ==
  IF names = <<>> THEN <<>>
  ELSE LET name == Head(names)
       IN (IF name \in DOMAIN gd.channels
           THEN <<gd.channels[name].info>> \o
                (IF gd.channels[name].urls = {} THEN <<>>
                 ELSE <<Http(sorted(gd.channels[name].urls)[1])>>)
           ELSE <<>>) \o emit_names_first_url(Tail(names), gd)

\* main(), step 2: the output lines
RECURSIVE emit_names(_, _)
emit_names(names, gd) ==
  IF names = <<>> THEN <<>>
  ELSE LET name == Head(names)
       IN (IF name \in DOMAIN gd.channels
           THEN <<gd.channels[name].info>> \o
                [i \in 1..Cardinality(gd.channels[name].urls) |->
                   Http(sorted(gd.channels[name].urls)[i])]
           ELSE <<>>) \o emit_names(Tail(names), gd)

RECURSIVE emit_groups(_, _)
emit_groups(gs, data) ==
  IF gs = <<>> THEN <<>>
  ELSE (IF Head(gs) \in DOMAIN data
        THEN emit_names(data[Head(gs)].order_list, data[Head(gs)])
        ELSE <<>>) \o emit_groups(Tail(gs), data)

generate_output(hdr, gorder, data) ==
  (IF hdr # NoLine THEN <<hdr>> ELSE <<>>) \o emit_groups(gorder, data)

\* ---- the history of the input: the records the files hold, read as
\* metadata line, directive lines, address lines
ref_line(cur, line) ==
  IF line.kind = "#EXTINF:" THEN (IF extract_name(line) = None THEN NoLine ELSE line)
  ELSE IF line.kind \in {"http", "#", "#EXTM3U"} THEN cur
  ELSE NoLine

ref_key(l) == <<extract_name(l), extract_group_title(l)>>

\* -------------------------------------------------------- m3u_mergerng.py
\* A display name is a sequence of characters: "c"/"C" a letter in either
\* case, "-" the hyphen, "T" the suffix character, " " a blank, "0".."9",
\* "W" the satellite marker; "cctv"/"CCTV" stand for the four letters.
Digits == {"0", "1", "2", "3", "4", "5", "6", "7", "8", "9"}
DigitVal(d) ==
  CASE d = "0" -> 0 [] d = "1" -> 1 [] d = "2" -> 2 [] d = "3" -> 3 [] d = "4" -> 4
    [] d = "5" -> 5 [] d = "6" -> 6 [] d = "7" -> 7 [] d = "8" -> 8 [] d = "9" -> 9

upper_char(ch) == IF ch = "c" THEN "C" ELSE IF ch = "cctv" THEN "CCTV" ELSE ch
str_upper(x) == [i \in 1..Len(x) |-> upper_char(x[i])]

str_remove(x, ch) == SelectSeq(x, LAMBDA t : t # ch)

RECURSIVE str_strip(_)
str_strip(x) ==
  IF x = <<>> THEN x
  ELSE IF Head(x) = " " THEN str_strip(Tail(x))
  ELSE IF x[Len(x)] = " " THEN str_strip(SubSeq(x, 1, Len(x) - 1))
  ELSE x

endswith(x, ch) == x # <<>> /\ x[Len(x)] = ch

get_norm_key(name) ==
  IF name = <<>> THEN <<>>
  ELSE LET temp == str_remove(name, "-")
           temp2 == IF endswith(temp, "T") THEN SubSeq(temp, 1, Len(temp) - 1) ELSE temp
       IN str_upper(str_strip(temp2))

\* the preferred form, the suffix character being forgotten
is_preferred_hyphen_only(name) == \E i \in 1..Len(name) : name[i] = "-"

is_preferred(name) == (\E i \in 1..Len(name) : name[i] = "-") \/ endswith(name, "T")

\* int(match.group(1)) for the digits from position i on
RECURSIVE digits_value(_, _, _)
digits_value(name, i, acc) ==
  IF i > Len(name) \/ name[i] \notin Digits THEN acc
  ELSE digits_value(name, i + 1, acc * 10 + DigitVal(name[i]))

\* re.search(r'(?i)CCTV-?(\d+)', name): the leftmost match from position i on
RECURSIVE cctv_search(_, _)
cctv_search(name, i) ==
  IF i > Len(name) THEN 999
  ELSE LET d == IF i + 1 <= Len(name) /\ name[i + 1] = "-" THEN i + 2 ELSE i + 1
       IN IF name[i] \in {"CCTV", "cctv"} /\ d <= Len(name) /\ name[d] \in Digits
          THEN digits_value(name, d, 0)
          ELSE cctv_search(name, i + 1)

extract_cctv_num(name) == cctv_search(name, 1)

\* "#EXTINF:<t> [group-title="g"],name" of m3u_mergerng: name is the text
\* after the last comma, pre the number of commas before the attributes
NgLn(k, n, g, t, u, c) ==
  [kind |-> k, name |-> n, grp |-> g, tvg |-> t, url |-> u, pre |-> c]
NgNoLine == NgLn("", <<>>, "", 0, 0, 0)
NgInfo(n, g, t) == NgLn("#EXTINF:", n, g, t, 0, 0)
NgHttp(u) == NgLn("http", <<>>, "", 0, u, 0)
NgHash(t) == NgLn("#", <<>>, "", t, 0, 0)
NgExtm3u(t) == NgLn("#EXTM3U", <<>>, "", t, 0, 0)
NgText(t) == NgLn("text", <<>>, "", t, 0, 0)

DefaultGroup == "qita"
CctvGroup == "yangshi"
WeishiGroup == "weishi"

\* re.search(r',([^,]+)$', line)
ng_name(line) == IF line.name = <<>> THEN <<>> ELSE str_strip(line.name)
\* re.search(r'group-title="([^"]*)"', current_info)
ng_group(line) == IF line.grp = NoAttr THEN DefaultGroup ELSE line.grp

InitNgParse ==
  [channels |-> EmptyMap, order |-> <<>>, header |-> NgExtm3u(0),
   current_info |-> NgNoLine, current_name |-> <<>>,
   current_configs |-> <<>>, current_urls |-> <<>>]

\* parse_m3u, lines 57-83 and 108-130: the record being read goes to channels
save_channel(s) ==
  IF s.current_info = NgNoLine \/ s.current_name = <<>> THEN s
  ELSE LET norm_key == get_norm_key(s.current_name)
       IN IF norm_key \notin DOMAIN s.channels
          THEN [s EXCEPT
                 !.channels = @ @@ (norm_key :>
                    [info |-> s.current_info, name |-> s.current_name,
                     urls |-> {s.current_urls[i] : i \in 1..Len(s.current_urls)},
                     configs |-> s.current_configs,
                     original_group |-> ng_group(s.current_info),
                     order_idx |-> Len(s.order)]),
                 !.order = Append(@, norm_key)]
          ELSE LET old == s.channels[norm_key]
                   win == is_preferred(s.current_name) /\ ~is_preferred(old.name)
               IN [s EXCEPT !.channels[norm_key] =
                     [old EXCEPT
                        !.urls = @ \cup {s.current_urls[i] : i \in 1..Len(s.current_urls)},
                        !.configs = @ \o s.current_configs,
                        !.info = IF win THEN s.current_info ELSE @,
                        !.name = IF win THEN s.current_name ELSE @]]

\* parse_m3u, one iteration of the loop over the lines
ng_parse_line(s, line) ==
  IF line.kind = "#EXTM3U" THEN [s EXCEPT !.header = line]
  ELSE IF line.kind = "#EXTINF:"
  THEN [save_channel(s) EXCEPT !.current_info = line,
                               !.current_name = ng_name(line),
                               !.current_configs = <<>>,
                               !.current_urls = <<>>]
  ELSE IF line.kind = "#" THEN [s EXCEPT !.current_configs = Append(@, line)]
  ELSE IF line.kind = "http" /\ s.current_name # <<>>
  THEN [s EXCEPT !.current_urls = Append(@, line.url)]
  ELSE s

RECURSIVE ng_parse_from(_, _)
ng_parse_from(s, lines) ==
  IF lines = <<>> THEN save_channel(s)
  ELSE ng_parse_from(ng_parse_line(s, Head(lines)), Tail(lines))

parse_m3u(lines) == ng_parse_from(InitNgParse, lines)

\* list.sort(key=...): a stable sort of <<key, item>> by the integer key
RECURSIVE sort_insert(_, _)
sort_insert(sorted_part, x) ==
  IF sorted_part = <<>> THEN <<x>>
  ELSE IF sorted_part[Len(sorted_part)][1] <= x[1] THEN Append(sorted_part, x)
  ELSE Append(sort_insert(SubSeq(sorted_part, 1, Len(sorted_part) - 1), x),
              sorted_part[Len(sorted_part)])

RECURSIVE stable_sort(_)
stable_sort(pairs) ==
  IF pairs = <<>> THEN <<>>
  ELSE sort_insert(stable_sort(SubSeq(pairs, 1, Len(pairs) - 1)), pairs[Len(pairs)])

items_of(pairs) == [i \in 1..Len(pairs) |-> pairs[i][2]]

\* the rank of a group title in the order of Python strings
GroupRank(g) ==
  CASE g = "g1" -> 1 [] g = "g2" -> 2 [] g = DefaultGroup -> 3 [] OTHER -> 4

has_cctv(name) == \E i \in 1..Len(name) : upper_char(name[i]) = "CCTV"
has_weishi(name) == \E i \in 1..Len(name) : name[i] = "W"

\* the classification with the satellite marker looked at before the
\* letters CCTV
classify_marker_first(channels, order) ==
  LET all == [i \in 1..Len(order) |-> channels[order[i]]]
      cctv == SelectSeq(all, LAMBDA d : has_cctv(d.name) /\ ~has_weishi(d.name))
      weishi == SelectSeq(all, LAMBDA d : has_weishi(d.name))
      other == SelectSeq(all, LAMBDA d : ~has_cctv(d.name) /\ ~has_weishi(d.name))
      fg(d, g) == [info |-> d.info, name |-> d.name, urls |-> d.urls,
                   configs |-> d.configs, original_group |-> d.original_group,
                   order_idx |-> d.order_idx, final_group |-> g]
      cctv_bucket == items_of(stable_sort(
         [i \in 1..Len(cctv) |-> <<extract_cctv_num(cctv[i].name), fg(cctv[i], CctvGroup)>>]))
      weishee_bucket == items_of(stable_sort(
         [i \in 1..Len(weishi) |-> <<weishi[i].order_idx, fg(weishi[i], WeishiGroup)>>]))
      other_bucket == items_of(stable_sort(
         [i \in 1..Len(other) |->
            <<GroupRank(other[i].original_group) * (Len(order) + 1) + other[i].order_idx,
              fg(other[i], other[i].original_group)>>]))
  IN cctv_bucket \o weishee_bucket \o other_bucket

\* main(), lines 312-360: classification, the three sorts, the final list
classify(channels, order) ==
  LET all == [i \in 1..Len(order) |-> channels[order[i]]]
      cctv == SelectSeq(all, LAMBDA d : has_cctv(d.name))
      weishi == SelectSeq(all, LAMBDA d : ~has_cctv(d.name) /\ has_weishi(d.name))
      other == SelectSeq(all, LAMBDA d : ~has_cctv(d.name) /\ ~has_weishi(d.name))
      fg(d, g) == [info |-> d.info, name |-> d.name, urls |-> d.urls,
                   configs |-> d.configs, original_group |-> d.original_group,
                   order_idx |-> d.order_idx, final_group |-> g]
      cctv_bucket == items_of(stable_sort(
         [i \in 1..Len(cctv) |-> <<extract_cctv_num(cctv[i].name), fg(cctv[i], CctvGroup)>>]))
      weishee_bucket == items_of(stable_sort(
         [i \in 1..Len(weishi) |-> <<weishi[i].order_idx, fg(weishi[i], WeishiGroup)>>]))
      other_bucket == items_of(stable_sort(
         [i \in 1..Len(other) |->
            <<GroupRank(other[i].original_group) * (Len(order) + 1) + other[i].order_idx,
              fg(other[i], other[i].original_group)>>]))
  IN cctv_bucket \o weishee_bucket \o other_bucket

\* safe_write_output, lines 175-181: the info line with the final group
rewrite_group(info, new_group) ==
  IF info.grp # NoAttr THEN [info EXCEPT !.grp = new_group]
  ELSE [info EXCEPT !.grp = new_group, !.pre = @ + 1]

\* safe_write_output, lines 173-192: the text written
RECURSIVE write_items(_, _)
write_items(items, noconf) ==
  IF items = <<>> THEN <<>>
  ELSE LET item == Head(items)
       IN <<rewrite_group(item.info, item.final_group)>>
          \o (IF noconf THEN <<>> ELSE item.configs)
          \o [i \in 1..Cardinality(item.urls) |-> NgHttp(sorted(item.urls)[i])]
          \o write_items(Tail(items), noconf)

ng_write(hdr, items, noconf) == <<hdr>> \o write_items(items, noconf)

\* the names a display name of MaxNameLen characters can be
NameChars == {"c", "C", "-", "T", " "}
RECURSIVE names_upto(_)
names_upto(n) ==
  IF n = 0 THEN {<<>>}
  ELSE LET shorter == names_upto(n - 1)
       IN shorter \cup { Append(x, ch) : x \in shorter, ch \in NameChars }
Names == { x \in names_upto(MaxNameLen) : x # <<>> /\ str_strip(x) = x }

\* the input families of m3u_mergerng: two spellings of names, the CCTV
\* numbers, records with addresses and directive lines, header lines
CctvLines == { NgInfo(<<"CCTV", "-", "5">>, "g1", 1), NgInfo(<<"CCTV", "1", "3">>, "g1", 1),
               NgInfo(<<"CCTV", "C">>, "g1", 1), NgInfo(<<"cctv", "1", "0", "0", "0">>, "g1", 1) }
RecordLines == { NgInfo(<<"C">>, "g1", 1), NgInfo(<<"C", "T">>, NoAttr, 1),
                 NgInfo(<<"CCTV", "1">>, "g2", 1), NgHttp(1), NgHttp(2), NgHash(1) }
HeaderLines == { NgExtm3u(1), NgExtm3u(2), NgInfo(<<"C">>, "g1", 1), NgHttp(1) }
BucketLines == { NgInfo(<<"cctv", "W">>, "g2", 1), NgInfo(<<"W">>, "g1", 1),
                 NgInfo(<<"C">>, WeishiGroup, 1), NgInfo(<<"CCTV", "1">>, "g1", 1) }

NgSuites ==
  { {NgInfo(x, "g1", 1), NgInfo(y, "g1", 1)} : x \in Names, y \in Names }
    \cup {CctvLines, RecordLines, HeaderLines, BucketLines}

IdleMerger ==
  /\ suite = "none"
  /\ parse = InitParse
  /\ nlines = 0
  /\ nfiles = 0
  /\ current_order_list = <<>>
  /\ current_map = EmptyMap
  /\ current_header = NoLine
  /\ remerged = FALSE
  /\ final_channels_data = EmptyMap
  /\ group_global_order = <<>>
  /\ final_header = NoLine
  /\ output_lines = <<>>
  /\ reparsed = InitParse
  /\ mpc = "idle"
  /\ ref_cur = NoLine
  /\ ref_adj = TRUE
  /\ fed_file = {}
  /\ fed = {}
  /\ pair_file = EmptyMap
  /\ pair_info = EmptyMap
  /\ first_header = NoLine
  /\ skipped = FALSE

\* -------------------------------------------------------------- extract.py
\* A text is a sequence of characters; "a" and "b" are letters, " " a blank,
\* "q" the double quote, "," "&" "|" themselves.
RECURSIVE strip_char(_, _)
strip_char(x, ch) ==
  IF x = <<>> THEN x
  ELSE IF Head(x) = ch THEN strip_char(Tail(x), ch)
  ELSE IF x[Len(x)] = ch THEN strip_char(SubSeq(x, 1, Len(x) - 1), ch)
  ELSE x

\* needle in text
str_in(needle, text) ==
  \E i \in 0..(Len(text) - Len(needle)) :
    \A j \in 1..Len(needle) : text[i + j] = needle[j]

\* text.split(ch + ch), from position i on, cur the piece being read
RECURSIVE split_pair(_, _, _, _)
split_pair(x, ch, i, cur) ==
  IF i > Len(x) THEN <<cur>>
  ELSE IF i + 1 <= Len(x) /\ x[i] = ch /\ x[i + 1] = ch
  THEN <<cur>> \o split_pair(x, ch, i + 2, <<>>)
  ELSE split_pair(x, ch, i + 1, Append(cur, x[i]))

\* text.split(',')
RECURSIVE split_comma(_, _, _)
split_comma(x, i, cur) ==
  IF i > Len(x) THEN <<cur>>
  ELSE IF x[i] = "," THEN <<cur>> \o split_comma(x, i + 1, <<>>)
  ELSE split_comma(x, i + 1, Append(cur, x[i]))

\* [k.strip() for k in ... if k.strip()]
sub_keywords(pieces) ==
  LET stripped == [i \in 1..Len(pieces) |-> str_strip(pieces[i])]
  IN SelectSeq(stripped, LAMBDA k : k # <<>>)

_check_match(text, keyword_str) ==
  IF keyword_str = <<>> \/ str_strip(keyword_str) = <<>> THEN FALSE
  ELSE LET processed_keyword == strip_char(str_strip(keyword_str), "q")
       IN IF str_in(<<"&", "&">>, processed_keyword)
          THEN LET subs == sub_keywords(split_pair(processed_keyword, "&", 1, <<>>))
               IN \A i \in 1..Len(subs) : str_in(subs[i], text)
          ELSE IF str_in(<<"|", "|">>, processed_keyword)
          THEN LET subs == sub_keywords(split_pair(processed_keyword, "|", 1, <<>>))
               IN \E i \in 1..Len(subs) : str_in(subs[i], text)
          ELSE str_in(processed_keyword, text)

\* a line of the file: "#EXTINF" + text, another "#" line, or any other line
ExLn(k, t) == [kind |-> k, text |-> t]
ExInfo(t) == ExLn("#EXTINF", t)
ExHash(t) == ExLn("#", t)
ExAddr(t) == ExLn("addr", t)

NoKeywords == <<>>

\* extract_keyword_lines, lines 44-64: the two keywords of the argument;
\* error stands for the early return of []
parse_keywords(mode, arg) ==
  IF arg = <<>> THEN [error |-> FALSE, parts |-> NoKeywords]
  ELSE LET pieces == split_comma(arg, 1, <<>>)
           parts == [i \in 1..Len(pieces) |-> str_strip(pieces[i])]
       IN IF Len(parts) # 2 THEN [error |-> TRUE, parts |-> NoKeywords]
          ELSE IF mode = "and" /\ (parts[1] = <<>> \/ parts[2] = <<>>)
          THEN [error |-> TRUE, parts |-> NoKeywords]
          ELSE [error |-> FALSE, parts |-> parts]

\* lines 75-88: from line j on (1-based), the directive lines passed and the
\* address found, "" when the record has none
RECURSIVE probe(_, _, _)
probe(lines, j, configs) ==
  IF j > Len(lines) \/ lines[j].kind = "#EXTINF"
  THEN [j |-> j, configs |-> configs, url |-> ExLn("", <<>>)]
  ELSE IF lines[j].kind = "#" THEN probe(lines, j + 1, Append(configs, lines[j]))
  ELSE [j |-> j, configs |-> configs, url |-> lines[j]]

\* every pair taken for one not seen before
not_seen_ever(record_key, seen) == TRUE

\* lines 110-112 and 125-126: record_key not in seen_record_pairs
not_seen(record_key, seen) == record_key \notin seen

\* lines 92-98
record_matched(mode, kw, extinf, url) ==
  IF kw = NoKeywords THEN FALSE
  ELSE IF mode = "and"
  THEN _check_match(extinf.text, kw[1]) /\ _check_match(url.text, kw[2])
  ELSE _check_match(extinf.text, kw[1]) \/ _check_match(url.text, kw[2])

\* lines 141-151
RECURSIVE flatten(_)
flatten(blocks) ==
  IF blocks = <<>> THEN <<>>
  ELSE Head(blocks) \o <<ExLn("", <<>>)>> \o flatten(Tail(blocks))

build_result_keeping_last_blank(blocks) ==
  flatten(blocks)

build_result(blocks) ==
  LET r == flatten(blocks)
  IN IF r # <<>> /\ r[Len(r)] = ExLn("", <<>>) THEN SubSeq(r, 1, Len(r) - 1) ELSE r

\* the inputs of extract.py
ArgChars == {"a", "b", ",", " ", "q", "&", "|"}
RECURSIVE texts_upto(_, _)
texts_upto(n, chars) ==
  IF n = 0 THEN {<<>>}
  ELSE LET shorter == texts_upto(n - 1, chars)
       IN shorter \cup { Append(x, ch) : x \in shorter, ch \in chars }
Args == texts_upto(MaxArgLen, ArgChars)
FewArgs == { <<"a", ",", "b">>, <<"b", ",", "a">>, <<"a", ",">>, <<",", "b">>, <<"a">>, <<>> }

ExLineSet == { ExInfo(<<"a">>), ExInfo(<<"b">>), ExAddr(<<"a">>), ExAddr(<<"b">>),
               ExHash(<<"a">>) }
Files == texts_upto(MaxExLines, ExLineSet)
FewFiles ==
  { <<e, u>> : e \in {ExInfo(<<"a">>), ExInfo(<<"b">>)},
               u \in {ExAddr(<<"a">>), ExAddr(<<"b">>)} }
  \cup { <<ExInfo(<<"a">>), ExAddr(<<"a">>), ExInfo(<<"b">>), ExAddr(<<"b">>)>> }
  \cup { <<e, ExHash(<<"a">>), u>> : e \in {ExInfo(<<"a">>), ExInfo(<<"b">>)},
                                     u \in {ExAddr(<<"a">>), ExAddr(<<"b">>)} }
\* files in which a (metadata line, address) pair stands more than once
RepeatFiles ==
  { <<ExInfo(<<"a">>), ExHash(<<"a">>), ExAddr(<<"a">>), ExInfo(<<"b">>), ExAddr(<<"b">>),
      ExInfo(<<"a">>), ExAddr(<<"a">>)>>,
    <<ExInfo(<<"a">>), ExAddr(<<"a">>), ExInfo(<<"a">>), ExHash(<<"a">>), ExAddr(<<"a">>)>>,
    <<ExInfo(<<"b">>), ExAddr(<<"a">>), ExInfo(<<"a">>), ExAddr(<<"b">>),
      ExInfo(<<"b">>), ExAddr(<<"a">>)>>,
    <<ExAddr(<<"a">>), ExInfo(<<"a">>), ExAddr(<<"a">>), ExAddr(<<"a">>),
      ExInfo(<<"a">>), ExAddr(<<"a">>)>> }

\* ---------------------------------------------------------- rdfinurl.py
\* a line of the playlist: an address (http:// or https://, numbered u) or
\* some other text; pad tells that white space surrounds it in the file
RdLn(k, u, pad) == [kind |-> k, url |-> u, pad |-> pad]
RdUrl(u, pad) == RdLn("url", u, pad)
RdText(pad) == RdLn("text", 0, pad)

\* process_m3u_file, line 252: line.strip()
rd_strip(line) == [line EXCEPT !.pad = FALSE]
\* lines 254, 259: url_pattern.match(line), on a stripped line
url_pattern_match(line) == line.kind = "url" /\ ~line.pad

\* the address a request for u is redirected to, and the last address
\* reached by a chain of redirects
hop_of(u) == u + 20
final_of(u) == u + 10

\* get_final_url, lines 12-61, by what the requests do; returned is FALSE
\* for falling out of the loop after max_redirects redirects (None)
Outcomes == {"answered", "redirected", "failed", "failed after redirect",
             "redirects exhausted"}
get_final_url(u, outcome) ==
  IF outcome = "answered"
  THEN [returned |-> TRUE, final_url |-> u, success |-> TRUE]
  ELSE IF outcome = "redirected"
  THEN [returned |-> TRUE, final_url |-> final_of(u), success |-> TRUE]
  ELSE IF outcome = "failed"
  THEN [returned |-> TRUE, final_url |-> u, success |-> FALSE]
  ELSE IF outcome = "failed after redirect"
  THEN [returned |-> TRUE, final_url |-> hop_of(u), success |-> FALSE]
  ELSE [returned |-> FALSE, final_url |-> u, success |-> FALSE]

\* resolve_urls_with_retry, lines 81-108: the entry stored for original_url
\* when its future gave r; unpacking None raises, lines 99-108
entry_of(original_url, r) ==
  IF r.returned THEN [final_url |-> r.final_url, success |-> r.success]
  ELSE [final_url |-> original_url, success |-> FALSE]

\* process_m3u_file, lines 258-261
urls_to_process(lines) == SelectSeq(lines, url_pattern_match)
line_indices(lines) ==
  [u \in { lines[i].url : i \in { j \in 1..Len(lines) : url_pattern_match(lines[j]) } } |->
     { i \in 1..Len(lines) : url_pattern_match(lines[i]) /\ lines[i].url = u }]

\* lines 281-293: the lines of the resolved addresses are replaced
replace_lines_always(lines, resolved_map, indices) ==
  [i \in 1..Len(lines) |->
     IF \E u \in DOMAIN resolved_map : i \in indices[u]
     THEN RdUrl(resolved_map[CHOOSE u \in DOMAIN resolved_map : i \in indices[u]].final_url,
                FALSE)
     ELSE lines[i]]

replace_lines(lines, resolved_map, indices) ==
  [i \in 1..Len(lines) |->
     IF \E u \in DOMAIN resolved_map : resolved_map[u].success /\ i \in indices[u]
     THEN RdUrl(resolved_map[CHOOSE u \in DOMAIN resolved_map : i \in indices[u]].final_url,
                FALSE)
     ELSE lines[i]]

\* the inputs of rdfinurl.py
RdLineSet == {RdUrl(1, FALSE), RdUrl(1, TRUE), RdUrl(2, FALSE),
              RdText(FALSE), RdText(TRUE)}
RdFiles == UNION { [1..n -> RdLineSet] : n \in 0..MaxRdLines }

\* a file: whether it exists and its lines
NoFile == [exists |-> FALSE, lines |-> <<>>]
File(lines) == [exists |-> TRUE, lines |-> lines]
\* exit_code while __main__ has not called sys.exit or run to its end
NotExited == -1
\* some earlier content of the file at --output
OldText == <<ExLn("old", <<>>)>>

\* ------------------------------------------------- actions, m3u_merger
\* _check_match is not called on its own
IdleCheckMatch ==
  /\ cm_text = <<>>
  /\ cm_keyword = <<>>
  /\ cm_result = FALSE
  /\ cpc = "idle"

\* no parser is applied to a whole file
IdleParsers ==
  /\ pf_tool = "none"
  /\ pf_file = <<>>
  /\ pf_parsed = EmptyMap
  /\ ppc = "idle"
  /\ IdleCheckMatch

\* rdfinurl.py is not running
IdleResolve ==
  /\ rd_input = <<>>
  /\ rd_refused = FALSE
  /\ rd_lines = <<>>
  /\ url_to_line_indices = EmptyMap
  /\ max_retries = 0
  /\ rd_urls = <<>>
  /\ resolved_info = EmptyMap
  /\ retries = 0
  /\ failed_urls = <<>>
  /\ pending = {}
  /\ rounds = 0
  /\ rd_output = <<>>
  /\ rpc = "idle"
  /\ probes = {}

\* __main__ of extract.py is not running: extract_keyword_lines is called
\* on a readable file
IdleMain ==
  /\ readable = TRUE
  /\ same_file = FALSE
  /\ ex_force = FALSE
  /\ dest_before = NoFile
  /\ dest = NoFile
  /\ temp_file = NoFile
  /\ temp_path = FALSE
  /\ written = 0
  /\ ipc = "idle"
  /\ exit_code = NotExited

IdleExtract ==
  /\ ex_lines = <<>>
  /\ ex_mode = "and"
  /\ ex_arg = <<>>
  /\ ex_no_config = FALSE
  /\ remove_mode = FALSE
  /\ keywords = NoKeywords
  /\ ex_i = 0
  /\ ordered_record_pairs = <<>>
  /\ seen_record_pairs = {}
  /\ result = <<>>
  /\ epc = "idle"
  /\ match_log = {}
  /\ runs = 0
  /\ prev_kept = {}
  /\ IdleMain

IdleNg ==
  /\ ng_suite = {}
  /\ no_config = FALSE
  /\ keep_order = FALSE
  /\ first_seen = EmptyMap
  /\ ng_first_header = NgNoLine
  /\ ngparse = InitNgParse
  /\ ng_nlines = 0
  /\ final_list = <<>>
  /\ ng_output = <<>>
  /\ ng_reparsed = InitNgParse
  /\ npc = "idle"
  /\ merged_into = EmptyMap

InitMerger ==
  /\ IdleResolve
  /\ IdleParsers
  /\ IdleNg
  /\ IdleExtract
  /\ suite \in Suites
  /\ parse = InitParse
  /\ nlines = 0
  /\ nfiles = 0
  /\ current_order_list = <<>>
  /\ current_map = EmptyMap
  /\ current_header = NoLine
  /\ remerged = FALSE
  /\ final_channels_data = EmptyMap
  /\ group_global_order = <<>>
  /\ final_header = NoLine
  /\ output_lines = <<>>
  /\ reparsed = InitParse
  /\ mpc = "read"
  /\ ref_cur = NoLine
  /\ ref_adj = TRUE
  /\ fed_file = {}
  /\ fed = {}
  /\ pair_file = EmptyMap
  /\ pair_info = EmptyMap
  /\ first_header = NoLine
  /\ skipped = FALSE

\* parse_single_m3u reads one more line of the current file
ReadLine ==
  /\ UNCHANGED <<nvars, evars, ivars, rvars, pvars>>
  /\ mpc = "read"
  /\ ~skipped
  /\ nlines < MaxLines
  /\ nfiles < MaxFiles
  /\ \E line \in LinesOf(suite) :
       /\ parse' = parse_line(parse, line)
       /\ first_header' = IF line.kind = "#EXTM3U" /\ first_header = NoLine
                          THEN line ELSE first_header
       /\ ref_cur' = ref_line(ref_cur, line)
       /\ ref_adj' = IF line.kind = "#EXTINF:" THEN TRUE
                     ELSE IF line.kind = "http" THEN ref_adj ELSE FALSE
       /\ fed_file' = IF line.kind = "http" /\ ref_cur # NoLine
                      THEN fed_file \cup {<<ref_key(ref_cur)[1], ref_key(ref_cur)[2],
                                            line.url, ref_adj>>}
                      ELSE fed_file
       /\ pair_file' = IF line.kind = "http" /\ ref_cur # NoLine /\ ref_adj
                       THEN [k \in DOMAIN pair_file \cup {ref_key(ref_cur)} |->
                               IF k = ref_key(ref_cur) THEN ref_cur ELSE pair_file[k]]
                       ELSE pair_file
  /\ nlines' = nlines + 1
  /\ UNCHANGED <<suite, nfiles, current_order_list, current_map, current_header,
                 remerged, final_channels_data, group_global_order, final_header,
                 output_lines, reparsed, mpc, fed, pair_info, skipped>>

\* main(): the file is read to its end and merged into the accumulator
MergeWith(order, cmap, hdr) ==
  LET acc == merge_file(order, cmap,
                        [data |-> final_channels_data, order |-> group_global_order])
  IN /\ final_channels_data' = acc.data
     /\ group_global_order' = acc.order
     /\ final_header' = IF final_header = NoLine /\ hdr # NoLine THEN hdr
                        ELSE final_header
     /\ current_order_list' = order
     /\ current_map' = cmap
     /\ current_header' = hdr
     /\ nfiles' = nfiles + 1

MergeFile ==
  /\ UNCHANGED <<nvars, evars, ivars, rvars, pvars>>
  /\ mpc = "read"
  /\ ~skipped
  /\ nfiles < MaxFiles
  /\ MergeWith(parse.order_list, parse.channels_map, parse.header)
  /\ remerged' = FALSE
  /\ parse' = InitParse
  /\ nlines' = 0
  /\ ref_cur' = NoLine
  /\ ref_adj' = TRUE
  /\ fed' = fed \cup fed_file
  /\ fed_file' = {}
  /\ pair_info' = [k \in DOMAIN pair_info \cup DOMAIN pair_file |->
                     IF k \in DOMAIN pair_file THEN pair_file[k] ELSE pair_info[k]]
  /\ pair_file' = EmptyMap
  /\ UNCHANGED <<suite, output_lines, reparsed, mpc, first_header, skipped>>

\* main(): the input list names the file merged last once more
MergeSameFile ==
  /\ UNCHANGED <<nvars, evars, ivars, rvars, pvars>>
  /\ mpc = "read"
  /\ ~skipped
  /\ nfiles >= 1
  /\ nfiles < MaxFiles
  /\ nlines = 0
  /\ MergeWith(current_order_list, current_map, current_header)
  /\ remerged' = TRUE
  /\ UNCHANGED <<suite, parse, nlines, output_lines, reparsed, mpc,
                 ref_cur, ref_adj, fed_file, fed, pair_file, pair_info,
                 first_header, skipped>>

\* main(), lines 245-247: an input of the list does not exist; it is warned
\* about and skipped (taken here as the last input of the list, the skip
\* changing nothing of what is merged)
SkipMissingFile ==
  /\ UNCHANGED <<nvars, evars, ivars, rvars, pvars>>
  /\ mpc = "read"
  /\ ~skipped
  /\ nfiles >= 1
  /\ nlines = 0
  /\ skipped' = TRUE
  /\ UNCHANGED <<suite, parse, nlines, nfiles, current_order_list, current_map,
                 current_header, remerged, final_channels_data, group_global_order,
                 final_header, output_lines, reparsed, mpc,
                 ref_cur, ref_adj, fed_file, fed, pair_file, pair_info, first_header>>

\* main(): all the inputs are merged; the output text is generated and written
WriteOutput ==
  /\ UNCHANGED <<nvars, evars, ivars, rvars, pvars>>
  /\ mpc = "read"
  /\ nfiles >= 1
  /\ nlines = 0
  /\ output_lines' = generate_output(final_header, group_global_order,
                                     final_channels_data)
  /\ mpc' = "written"
  /\ UNCHANGED <<suite, parse, nlines, nfiles, current_order_list, current_map,
                 current_header, remerged,
                 final_channels_data, group_global_order, final_header,
                 reparsed, ref_cur, ref_adj, fed_file, fed, pair_file, pair_info,
                 first_header, skipped>>

\* the written playlist is parsed again by parse_single_m3u
Reparse ==
  /\ UNCHANGED <<nvars, evars, ivars, rvars, pvars>>
  /\ mpc = "written"
  /\ reparsed' = parse_single_m3u(output_lines)
  /\ mpc' = "reparsed"
  /\ UNCHANGED <<suite, parse, nlines, nfiles, current_order_list, current_map,
                 current_header, remerged,
                 final_channels_data, group_global_order, final_header,
                 output_lines, ref_cur, ref_adj, fed_file, fed, pair_file, pair_info,
                 first_header, skipped>>

NextMerger ==
  ReadLine \/ MergeFile \/ MergeSameFile \/ SkipMissingFile \/ WriteOutput \/ Reparse

SpecMerger == InitMerger /\ [][NextMerger]_vars


\* ----------------------------------------------- actions, m3u_mergerng
InitNg ==
  /\ IdleResolve
  /\ IdleParsers
  /\ IdleMerger
  /\ IdleExtract
  /\ ng_suite \in NgSuites
  /\ no_config \in (IF \E l \in ng_suite : l.kind = "#" THEN BOOLEAN ELSE {FALSE})
  /\ keep_order \in (IF \E l \in ng_suite : l.kind = "http" /\ l.url = 2
                     THEN BOOLEAN ELSE {FALSE})
  /\ first_seen = EmptyMap
  /\ ng_first_header = NgNoLine
  /\ ngparse = InitNgParse
  /\ ng_nlines = 0
  /\ final_list = <<>>
  /\ ng_output = <<>>
  /\ ng_reparsed = InitNgParse
  /\ npc = "read"
  /\ merged_into = EmptyMap

\* history: the address of the line joins the addresses of the channel
\* being read, in the order first seen
Seen(s, line) ==
  IF line.kind # "http" \/ s.current_name = <<>> THEN first_seen
  ELSE LET k == get_norm_key(s.current_name)
           old == IF k \in DOMAIN first_seen THEN first_seen[k] ELSE <<>>
           new == IF \E i \in 1..Len(old) : old[i] = line.url THEN old
                  ELSE Append(old, line.url)
       IN [n \in DOMAIN first_seen \cup {k} |-> IF n = k THEN new ELSE first_seen[n]]

Absorb(s) ==
  IF s.current_info = NgNoLine \/ s.current_name = <<>> THEN merged_into
  ELSE [n \in DOMAIN merged_into \cup {s.current_name} |->
          IF n = s.current_name THEN get_norm_key(n) ELSE merged_into[n]]

\* parse_m3u reads one more line
NgReadLine ==
  /\ UNCHANGED <<mvars, evars, ivars, rvars, pvars>>
  /\ npc = "read"
  /\ ng_nlines < MaxNgLines
  /\ \E line \in ng_suite :
       /\ ngparse' = ng_parse_line(ngparse, line)
       /\ merged_into' = IF line.kind = "#EXTINF:" THEN Absorb(ngparse) ELSE merged_into
       /\ first_seen' = Seen(ngparse, line)
       /\ ng_first_header' = IF line.kind = "#EXTM3U" /\ ng_first_header = NgNoLine
                             THEN line ELSE ng_first_header
  /\ ng_nlines' = ng_nlines + 1
  /\ UNCHANGED <<ng_suite, no_config, keep_order, final_list, ng_output, ng_reparsed, npc>>

\* the end of the file: parse_m3u returns, main() classifies, sorts and writes
NgMain ==
  /\ UNCHANGED <<mvars, evars, ivars, rvars, pvars>>
  /\ npc = "read"
  /\ LET r == save_channel(ngparse)
     IN /\ ngparse' = r
        /\ merged_into' = Absorb(ngparse)
        /\ IF r.order = <<>>
           THEN /\ npc' = "failed"
                /\ UNCHANGED <<final_list, ng_output>>
           ELSE /\ final_list' = classify(r.channels, r.order)
                /\ ng_output' = ng_write(r.header, classify(r.channels, r.order), no_config)
                /\ npc' = "written"
  /\ UNCHANGED <<ng_suite, no_config, keep_order, first_seen, ng_first_header,
                 ng_nlines, ng_reparsed>>

\* the written playlist is parsed again by parse_m3u
NgReparse ==
  /\ UNCHANGED <<mvars, evars, ivars, rvars, pvars>>
  /\ npc = "written"
  /\ ng_reparsed' = parse_m3u(ng_output)
  /\ npc' = "reparsed"
  /\ UNCHANGED <<ng_suite, no_config, keep_order, first_seen, ng_first_header,
                 ngparse, ng_nlines, final_list, ng_output,
                 merged_into>>

NextNg == NgReadLine \/ NgMain \/ NgReparse

SpecNg == InitNg /\ [][NextNg]_vars

\* -------------------------------------------------- actions, extract.py
InitExtract ==
  /\ IdleResolve
  /\ IdleParsers
  /\ IdleMerger
  /\ IdleNg
  /\ \/ ex_arg \in Args /\ ex_lines \in FewFiles /\ ex_no_config = FALSE
     \/ ex_arg \in FewArgs /\ ex_lines \in Files /\ ex_no_config \in BOOLEAN
     \/ ex_arg \in FewArgs /\ ex_lines \in RepeatFiles /\ ex_no_config \in BOOLEAN
  /\ ex_mode \in {"and", "or"}
  /\ remove_mode \in BOOLEAN
  /\ keywords = NoKeywords
  /\ ex_i = 0
  /\ ordered_record_pairs = <<>>
  /\ seen_record_pairs = {}
  /\ result = <<>>
  /\ epc = "start"
  /\ match_log = {}
  /\ runs = 1
  /\ prev_kept = {}
  /\ IdleMain

\* extract_keyword_lines, lines 33-64: the file is read, the argument parsed
ExtractStart ==
  /\ UNCHANGED <<mvars, nvars, ivars, rvars, pvars>>
  /\ epc = "start"
  /\ LET kw == parse_keywords(ex_mode, ex_arg)
     IN IF ~readable \/ kw.error
        THEN /\ epc' = "done"
             /\ UNCHANGED keywords
        ELSE /\ epc' = "loop"
             /\ keywords' = kw.parts
  /\ UNCHANGED <<ex_lines, ex_mode, ex_arg, ex_no_config, remove_mode, ex_i,
                 ordered_record_pairs, seen_record_pairs, result, match_log,
                 runs, prev_kept>>

\* lines 67-139: one iteration of the loop over the lines
ExtractRecord ==
  /\ UNCHANGED <<mvars, nvars, ivars, rvars, pvars>>
  /\ epc = "loop"
  /\ ex_i < Len(ex_lines)
  /\ LET line == ex_lines[ex_i + 1]
     IN IF line.kind = "#EXTINF"
        THEN LET p == probe(ex_lines, ex_i + 2, <<>>)
                 current_url == p.url
                 matched == record_matched(ex_mode, keywords, line, current_url)
                 record_block == IF ex_no_config THEN <<line, current_url>>
                                 ELSE <<line>> \o p.configs \o <<current_url>>
                 record_key == <<line, current_url>>
                 keep == IF remove_mode THEN ~matched ELSE matched
             IN IF current_url.kind # ""
                THEN /\ IF keep /\ not_seen(record_key, seen_record_pairs)
                        THEN /\ ordered_record_pairs' = Append(ordered_record_pairs, record_block)
                             /\ seen_record_pairs' = seen_record_pairs \cup {record_key}
                        ELSE UNCHANGED <<ordered_record_pairs, seen_record_pairs>>
                     /\ ex_i' = p.j
                     /\ match_log' = match_log \cup
                          {[extinf |-> line, url |-> current_url, matched |-> matched,
                            m1 |-> IF keywords = NoKeywords THEN FALSE
                                   ELSE _check_match(line.text, keywords[1]),
                            m2 |-> IF keywords = NoKeywords THEN FALSE
                                   ELSE _check_match(current_url.text, keywords[2])]}
                ELSE /\ ex_i' = p.j - 1
                     /\ UNCHANGED <<ordered_record_pairs, seen_record_pairs, match_log>>
        ELSE /\ ordered_record_pairs' = IF remove_mode
                                        THEN Append(ordered_record_pairs, <<line>>)
                                        ELSE ordered_record_pairs
             /\ ex_i' = ex_i + 1
             /\ UNCHANGED <<seen_record_pairs, match_log>>
  /\ UNCHANGED <<ex_lines, ex_mode, ex_arg, ex_no_config, remove_mode, keywords,
                 result, epc, runs, prev_kept>>

\* lines 141-151: the loop is over, the result is built
ExtractFinish ==
  /\ UNCHANGED <<mvars, nvars, ivars, rvars, pvars>>
  /\ epc = "loop"
  /\ ex_i >= Len(ex_lines)
  /\ result' = build_result(ordered_record_pairs)
  /\ epc' = "done"
  /\ UNCHANGED <<ex_lines, ex_mode, ex_arg, ex_no_config, remove_mode, keywords,
                 ex_i, ordered_record_pairs, seen_record_pairs, match_log,
                 runs, prev_kept>>

NextExtract == ExtractStart \/ ExtractRecord \/ ExtractFinish

SpecExtract == InitExtract /\ [][NextExtract]_vars

\* the same expression and options once more, in the other polarity
ExtractAgain ==
  /\ UNCHANGED <<mvars, nvars, ivars, rvars, pvars>>
  /\ ipc = "idle"
  /\ epc = "done"
  /\ runs = 1
  /\ prev_kept' = seen_record_pairs
  /\ runs' = 2
  /\ remove_mode' = ~remove_mode
  /\ keywords' = NoKeywords
  /\ ex_i' = 0
  /\ ordered_record_pairs' = <<>>
  /\ seen_record_pairs' = {}
  /\ result' = <<>>
  /\ epc' = "start"
  /\ UNCHANGED <<ex_lines, ex_mode, ex_arg, ex_no_config, match_log>>

InitExtractBoth == InitExtract /\ remove_mode = FALSE
NextExtractBoth == ExtractStart \/ ExtractRecord \/ ExtractFinish \/ ExtractAgain
SpecExtractBoth == InitExtractBoth /\ [][NextExtractBoth]_vars

\* ----------------------------------------- actions, extract.py __main__
InitExtractMain ==
  /\ IdleResolve
  /\ IdleParsers
  /\ IdleMerger
  /\ IdleNg
  /\ ex_arg \in FewArgs
  /\ ex_lines \in FewFiles
  /\ ex_no_config = FALSE
  /\ ex_mode \in {"and", "or"}
  /\ remove_mode \in BOOLEAN
  /\ keywords = NoKeywords
  /\ ex_i = 0
  /\ ordered_record_pairs = <<>>
  /\ seen_record_pairs = {}
  /\ result = <<>>
  /\ epc = "idle"
  /\ match_log = {}
  /\ runs = 0
  /\ prev_kept = {}
  /\ readable \in BOOLEAN
  /\ same_file \in BOOLEAN
  /\ ex_force \in BOOLEAN
  /\ dest_before \in (IF same_file THEN {File(ex_lines)} ELSE {NoFile, File(OldText)})
  /\ dest = dest_before
  /\ temp_file = NoFile
  /\ temp_path = FALSE
  /\ written = 0
  /\ ipc = "check"
  /\ exit_code = NotExited

\* lines 297-305: an existing output that is not the input needs --force;
\* lines 307-329: extract_keyword_lines is called
CheckOutput ==
  /\ UNCHANGED <<mvars, nvars, rvars, pvars>>
  /\ ipc = "check"
  /\ IF dest.exists /\ ~same_file /\ ~ex_force
     THEN /\ ipc' = "refused"
          /\ exit_code' = 1
          /\ UNCHANGED <<epc, runs>>
     ELSE /\ ipc' = "extract"
          /\ epc' = "start"
          /\ runs' = 1
          /\ UNCHANGED exit_code
  /\ UNCHANGED <<ex_lines, ex_mode, ex_arg, ex_no_config, remove_mode, keywords,
                 ex_i, ordered_record_pairs, seen_record_pairs, result,
                 match_log, prev_kept>>
  /\ UNCHANGED <<readable, same_file, ex_force, dest_before, dest, temp_file,
                 temp_path, written>>

\* safe_write_output, lines 167-183: the file to write is opened
SafeWriteOpen ==
  /\ UNCHANGED <<mvars, nvars, evars, rvars, pvars>>
  /\ ipc = "extract"
  /\ epc = "done"
  /\ IF same_file
     THEN \E outcome \in {"opened", "mkstemp raised", "fdopen raised"} :
            /\ temp_file' = IF outcome = "mkstemp raised" THEN temp_file ELSE File(<<>>)
            /\ temp_path' = (outcome # "mkstemp raised")
            /\ ipc' = IF outcome = "opened" THEN "write" ELSE "failed"
            /\ UNCHANGED dest
     ELSE \E outcome \in {"opened", "open raised"} :
            /\ dest' = IF outcome = "opened" THEN File(<<>>) ELSE dest
            /\ ipc' = IF outcome = "opened" THEN "write" ELSE "failed"
            /\ UNCHANGED <<temp_file, temp_path>>
  /\ UNCHANGED <<readable, same_file, ex_force, dest_before, written, exit_code>>

\* lines 186-188: the lines are written, each with its newline, until one
\* write (or the close) raises
SafeWriteData ==
  /\ UNCHANGED <<mvars, nvars, evars, rvars, pvars>>
  /\ ipc = "write"
  /\ \E k \in 0..Len(result), raised \in BOOLEAN :
       /\ k < Len(result) => raised
       /\ written' = k
       /\ IF same_file
          THEN /\ temp_file' = File(SubSeq(result, 1, k))
               /\ UNCHANGED dest
          ELSE /\ dest' = File(SubSeq(result, 1, k))
               /\ UNCHANGED temp_file
       /\ ipc' = IF raised THEN "failed" ELSE IF same_file THEN "replace" ELSE "finished"
       /\ exit_code' = IF ~raised /\ ~same_file THEN 0 ELSE exit_code
  /\ UNCHANGED <<readable, same_file, ex_force, dest_before, temp_path>>

\* lines 191-200: os.replace, and shutil.move when it raises; a move that
\* raises has copied k lines over the output, or (k past the end) none
SafeWriteReplace ==
  /\ UNCHANGED <<mvars, nvars, evars, rvars, pvars>>
  /\ ipc = "replace"
  /\ \/ /\ dest' = File(temp_file.lines)
        /\ temp_file' = NoFile
        /\ temp_path' = FALSE
        /\ ipc' = "finished"
        /\ exit_code' = 0
     \/ \E k \in 0..(Len(temp_file.lines) + 1) :
          /\ dest' = IF k > Len(temp_file.lines) THEN dest
                     ELSE File(SubSeq(temp_file.lines, 1, k))
          /\ ipc' = "failed"
          /\ UNCHANGED <<temp_file, temp_path, exit_code>>
  /\ UNCHANGED <<readable, same_file, ex_force, dest_before, written>>

\* lines 335-338 and cleanup_temp_file, lines 279-288
CleanupExit ==
  /\ UNCHANGED <<mvars, nvars, evars, rvars, pvars>>
  /\ ipc = "failed"
  /\ IF temp_path /\ temp_file.exists
     THEN \E unlinked \in BOOLEAN :
            temp_file' = IF unlinked THEN NoFile ELSE temp_file
     ELSE UNCHANGED temp_file
  /\ ipc' = "cleaned"
  /\ exit_code' = 1
  /\ UNCHANGED <<readable, same_file, ex_force, dest_before, dest, temp_path,
                 written>>

NextExtractMain ==
  \/ CheckOutput \/ ExtractStart \/ ExtractRecord \/ ExtractFinish
  \/ SafeWriteOpen \/ SafeWriteData \/ SafeWriteReplace \/ CleanupExit

SpecExtractMain == InitExtractMain /\ [][NextExtractMain]_vars

\* -------------------------------------------------- actions, rdfinurl.py
InitResolve ==
  /\ IdleParsers
  /\ IdleMerger
  /\ IdleNg
  /\ IdleExtract
  /\ rd_input \in RdFiles
  /\ rd_refused \in BOOLEAN
  /\ max_retries \in 0..MaxRetries
  /\ rd_lines = <<>>
  /\ url_to_line_indices = EmptyMap
  /\ rd_urls = <<>>
  /\ resolved_info = EmptyMap
  /\ retries = 0
  /\ failed_urls = <<>>
  /\ pending = {}
  /\ rounds = 0
  /\ rd_output = <<>>
  /\ rpc = "start"
  /\ probes = {}

\* process_m3u_file, lines 245-275, and resolve_urls_with_retry, lines
\* 68-77: the file is read, the addresses are collected and the first round
\* is submitted
ReadPlaylist ==
  /\ UNCHANGED <<mvars, nvars, evars, ivars, pvars>>
  /\ rpc = "start"
  /\ IF rd_refused
     THEN /\ rpc' = "refused"
          /\ UNCHANGED <<rd_lines, url_to_line_indices, rd_urls, pending, rounds>>
     ELSE LET lines == [i \in 1..Len(rd_input) |-> rd_strip(rd_input[i])]
              found == urls_to_process(lines)
          IN /\ rd_lines' = lines
             /\ url_to_line_indices' = line_indices(lines)
             /\ IF found = <<>>
                THEN /\ rpc' = "no url"
                     /\ UNCHANGED <<rd_urls, pending, rounds>>
                ELSE /\ rpc' = "round"
                     /\ rd_urls' = [i \in 1..Len(found) |-> found[i].url]
                     /\ pending' = 1..Len(found)
                     /\ rounds' = 1
  /\ UNCHANGED <<rd_input, rd_refused, max_retries, resolved_info, retries,
                 failed_urls, rd_output, probes>>

\* lines 79-108: one future completes, in any order, and its result is
\* stored under the address it was submitted for
ProbeCompletes ==
  /\ UNCHANGED <<mvars, nvars, evars, ivars, pvars>>
  /\ rpc = "round"
  /\ \E i \in pending, outcome \in Outcomes :
       LET original_url == rd_urls[i]
           entry == entry_of(original_url, get_final_url(original_url, outcome))
       IN /\ resolved_info' =
               [u \in DOMAIN resolved_info \cup {original_url} |->
                  IF u = original_url THEN entry ELSE resolved_info[u]]
          /\ failed_urls' = IF entry.success THEN failed_urls
                            ELSE Append(failed_urls, original_url)
          /\ pending' = pending \ {i}
          /\ probes' = probes \cup {[url |-> original_url, round |-> rounds,
                                     success |-> entry.success,
                                     final_url |-> entry.final_url]}
  /\ UNCHANGED <<rd_input, rd_refused, rd_lines, url_to_line_indices,
                 max_retries, rd_urls, retries, rounds, rd_output, rpc>>

\* lines 111-122 and 71-77: the round is over; the failed addresses are
\* submitted again unless there is none or no retry is left
EndRound ==
  /\ UNCHANGED <<mvars, nvars, evars, ivars, pvars>>
  /\ rpc = "round"
  /\ pending = {}
  /\ IF failed_urls = <<>> \/ retries = max_retries
     THEN /\ rpc' = "resolved"
          /\ UNCHANGED <<rd_urls, retries, failed_urls, pending, rounds>>
     ELSE /\ rd_urls' = failed_urls
          /\ retries' = retries + 1
          /\ failed_urls' = <<>>
          /\ pending' = 1..Len(failed_urls)
          /\ rounds' = rounds + 1
          /\ UNCHANGED rpc
  /\ UNCHANGED <<rd_input, rd_refused, rd_lines, url_to_line_indices,
                 max_retries, resolved_info, rd_output, probes>>

\* process_m3u_file, lines 277-300: the lines are replaced and written
WriteResolved ==
  /\ UNCHANGED <<mvars, nvars, evars, ivars, pvars>>
  /\ rpc = "resolved"
  /\ rd_lines' = replace_lines(rd_lines, resolved_info, url_to_line_indices)
  /\ \E write_success \in BOOLEAN :
       /\ rpc' = IF write_success THEN "written" ELSE "write failed"
       /\ rd_output' = IF write_success THEN rd_lines' ELSE rd_output
  /\ UNCHANGED <<rd_input, rd_refused, url_to_line_indices, max_retries,
                 rd_urls, resolved_info, retries, failed_urls, pending, rounds,
                 probes>>

NextResolve == ReadPlaylist \/ ProbeCompletes \/ EndRound \/ WriteResolved

SpecResolve == InitResolve /\ [][NextResolve]_vars

\* every submitted future completes (each request has a timeout) and the
\* main thread goes on when the pool is done
SpecResolveFair == SpecResolve /\ WF_vars(NextResolve)

\* ------------------------------------- actions, a parser on a whole file
\* the lines of a record: a metadata line, a directive line, an http
\* address, an address of another scheme, and a header line
MergerRecordLines == {Extinf("X", "g1", 1), Hash(1), Http(1), Text(1), Extm3u(1)}
NgRecordLines == {NgInfo(<<"C">>, "g1", 1), NgHash(1), NgHttp(1), NgText(1), NgExtm3u(1)}
FilesOver(line_set, n) == UNION { [1..m -> line_set] : m \in 0..n }

InitParsers ==
  /\ IdleMerger
  /\ IdleNg
  /\ IdleExtract
  /\ IdleResolve
  /\ pf_tool \in {"m3u_merger", "m3u_mergerng"}
  /\ pf_file \in FilesOver(IF pf_tool = "m3u_merger" THEN MergerRecordLines
                            ELSE NgRecordLines, MaxPfLines)
  /\ pf_parsed = EmptyMap
  /\ ppc = "start"
  /\ IdleCheckMatch

\* parse_single_m3u (m3u_merger.py, lines 21-70) or parse_m3u
\* (m3u_mergerng.py, lines 38-132) on the lines of the file
ParseWhole ==
  /\ UNCHANGED <<mvars, nvars, evars, ivars, rvars>>
  /\ ppc = "start"
  /\ pf_parsed' = IF pf_tool = "m3u_merger"
                  THEN [key \in DOMAIN parse_single_m3u(pf_file).channels_map |->
                          parse_single_m3u(pf_file).channels_map[key].urls]
                  ELSE [key \in DOMAIN parse_m3u(pf_file).channels |->
                          parse_m3u(pf_file).channels[key].urls]
  /\ ppc' = "parsed"
  /\ UNCHANGED <<pf_tool, pf_file, cm_text, cm_keyword, cm_result, cpc>>

\* every parser: the two mergers on a whole file, extract_keyword_lines on
\* the few arguments
InitAllParsers == InitParsers \/ (InitExtract /\ ex_arg \in FewArgs)
NextAllParsers == ParseWhole \/ NextExtract
SpecParsers == InitAllParsers /\ [][NextAllParsers]_vars

\* ------------------------------------------------ actions, _check_match
\* the texts and keyword expressions _check_match is called with
KwChars == {"a", "b", " ", "q", "&", "|"}
Keywords == texts_upto(MaxKwLen, KwChars)
SomeTexts == { <<>>, <<"a">>, <<"b">>, <<"a", "b">>, <<"b", "a">>, <<"a", " ">>,
               <<" ", "a", " ">>, <<"a", " ", "b">>, <<"b", "|", "|", "a">>,
               <<"|">>, <<"q", "a">> }

InitCheckMatch ==
  /\ IdleMerger
  /\ IdleNg
  /\ IdleExtract
  /\ IdleResolve
  /\ pf_tool = "none"
  /\ pf_file = <<>>
  /\ pf_parsed = EmptyMap
  /\ ppc = "idle"
  /\ cm_text \in SomeTexts
  /\ cm_keyword \in Keywords
  /\ cm_result = FALSE
  /\ cpc = "start"

\* extract.py, lines 7-24
CheckMatch ==
  /\ UNCHANGED <<mvars, nvars, evars, ivars, rvars>>
  /\ cpc = "start"
  /\ cm_result' = _check_match(cm_text, cm_keyword)
  /\ cpc' = "returned"
  /\ UNCHANGED <<pf_tool, pf_file, pf_parsed, ppc, cm_text, cm_keyword>>

NextCheckMatch == CheckMatch
SpecCheckMatch == InitCheckMatch /\ [][NextCheckMatch]_vars

\* either merger, on the inputs that hold addresses
InitMergers == (InitMerger /\ suite \in {"urls", "keys", "heads"}) \/ InitNg
NextMergers == NextMerger \/ NextNg
SpecMergers == InitMergers /\ [][NextMergers]_vars

\* every tool that writes records: extract_keyword_lines on the few
\* arguments, and either merger
InitOutputs == (InitExtract /\ ex_arg \in FewArgs) \/ InitMergers
NextOutputs == NextExtract \/ NextMergers
SpecOutputs == InitOutputs /\ [][NextOutputs]_vars

\* ------------------------------------------------- properties, m3u_merger
HasChannel(g, n) ==
  g \in DOMAIN final_channels_data /\ n \in DOMAIN final_channels_data[g].channels

MergedUrls(n, g) ==
  IF HasChannel(g, n) THEN final_channels_data[g].channels[n].urls ELSE {}

Precedes(lst, a, b) ==
  /\ list_index(lst, a) # -1
  /\ list_index(lst, b) # -1
  /\ list_index(lst, a) < list_index(lst, b)

\* C1: when a file is merged, two channels of one group of the file that were
\* both absent from the accumulator before keep the order the file lists
\* them in, whatever known channels the file lists between or around them.
C1_NewChannelsKeepSourceOrder ==
  [][ nfiles' = nfiles + 1 =>
        \A i, j \in 1..Len(current_order_list') :
          LET a == current_order_list'[i]
              b == current_order_list'[j]
          IN (i < j /\ a[2] = b[2] /\ ~HasChannel(a[2], a[1]) /\ ~HasChannel(b[2], b[1]))
             => Precedes(final_channels_data'[a[2]].order_list, a[1], b[1]) ]_vars

\* C2 (exact policy): every address line that follows a channel's metadata
\* line in a merged file is in the URL set of the merged record of that
\* (name, group).
C2_SourceUrlsAreMerged ==
  \A p \in fed : p[3] \in MergedUrls(p[1], p[2])

\* the records of the written text: a metadata line and the addresses after it
RECURSIVE out_urls(_, _)
out_urls(lines, i) ==
  IF i > Len(lines) \/ lines[i].kind # "http" THEN {}
  ELSE {lines[i].url} \cup out_urls(lines, i + 1)

OutRecords(k) ==
  { i \in 1..Len(output_lines) :
      output_lines[i].kind = "#EXTINF:" /\ ref_key(output_lines[i]) = k }

\* C3: the metadata+address pairs of one (name, group) are exactly one
\* record of the output, whose URL set is the union of their addresses and
\* whose info line is the metadata line of the pair processed last; pairs of
\* another name or group are another record.
C3_PairsOfOneKeyAreOneRecord ==
  mpc = "written" =>
    \A k \in DOMAIN pair_info :
      /\ Cardinality(OutRecords(k)) = 1
      /\ \A i \in OutRecords(k) :
           /\ out_urls(output_lines, i + 1) =
                { p[3] : p \in { q \in fed : q[1] = k[1] /\ q[2] = k[2] /\ q[4] } }
           /\ output_lines[i] = pair_info[k]

\* C4: merging the file merged last once more changes no URL set, no info
\* line, no position in a group's order and no group: nothing is duplicated
\* and nothing is lost.
C4_SelfMergeIdempotent ==
  [][ (/\ nfiles >= 1
       /\ nfiles' = nfiles + 1
       /\ current_order_list' = current_order_list
       /\ current_map' = current_map
       /\ current_header' = current_header)
      => (/\ final_channels_data' = final_channels_data
          /\ group_global_order' = group_global_order
          /\ final_header' = final_header) ]_vars

C4_Witness ==
  /\ remerged
  /\ \E g \in DOMAIN final_channels_data :
       /\ Len(final_channels_data[g].order_list) >= 2
       /\ \E n \in DOMAIN final_channels_data[g].channels :
            final_channels_data[g].channels[n].urls # {}

\* the groups of a file that the accumulator does not hold yet, in the order
\* the file lists them first
NewGroups(order) ==
  SelectSeq(groups_of(order), LAMBDA g : g \notin DOMAIN final_channels_data)

\* C24: when a file is merged, the channels that were in a group's order
\* list before stand in it in the same relative order after (the list after,
\* without the channels the file brings, is the list before), and the group order is
\* the one before followed by the groups the file brings, in the order of
\* their first appearance.
C24_EarlierPlacementIsKept ==
  [][ nfiles' = nfiles + 1 =>
        /\ \A g \in DOMAIN final_channels_data :
             /\ g \in DOMAIN final_channels_data'
             /\ SelectSeq(final_channels_data'[g].order_list,
                           LAMBDA n : n \in DOMAIN final_channels_data[g].channels)
                  = final_channels_data[g].order_list
        /\ group_global_order' = group_global_order \o NewGroups(current_order_list') ]_vars

\* a second file has been merged: its channel stands before two channels
\* that only the first file lists, and its group after the first file's
C24_Witness ==
  /\ nfiles = 2
  /\ \/ \E g \in DOMAIN final_channels_data :
          \E i, j, k \in 1..Len(final_channels_data[g].order_list) :
            LET lst == final_channels_data[g].order_list
            IN /\ i < j /\ j < k
               /\ <<lst[i], g>> \in DOMAIN current_map
               /\ <<lst[j], g>> \notin DOMAIN current_map
               /\ <<lst[k], g>> \notin DOMAIN current_map
     \/ /\ Len(group_global_order) = 2
        /\ \E n \in {"X", "Y"} : <<n, group_global_order[2]>> \in DOMAIN current_map
        /\ \A n \in {"X", "Y"} : <<n, group_global_order[1]>> \notin DOMAIN current_map

\* ----------------------------------------------- properties, m3u_mergerng
Dehyphen(x) == SelectSeq(x, LAMBDA t : t # "-")
FoldCase(x) == [i \in 1..Len(x) |-> IF x[i] = "c" THEN "C" ELSE x[i]]
Spelling(x) == FoldCase(Dehyphen(x))
HasSuffix(x) == x # <<>> /\ x[Len(x)] = "T"
HyphenOrSuffix(x) == (\E i \in 1..Len(x) : x[i] = "-") \/ HasSuffix(x)

\* the two names differ only by hyphens, by one trailing suffix character or
\* by letter case
DifferOnlyBy(x, y) ==
  \/ Spelling(x) = Spelling(y)
  \/ Spelling(x) = Append(Spelling(y), "T")
  \/ Spelling(y) = Append(Spelling(x), "T")

\* the same, the suffix character counting only on a name that, hyphens
\* removed, does not already end with it
DifferOnlyByOneSuffix(x, y) ==
  \/ Spelling(x) = Spelling(y)
  \/ Spelling(x) = Append(Spelling(y), "T") /\ ~HasSuffix(Spelling(y))
  \/ Spelling(y) = Append(Spelling(x), "T") /\ ~HasSuffix(Spelling(x))

\* if a variant that went to the record is a preferred form, the stored
\* name and info line are those of a preferred form that went to it
PreferredFormWins ==
  \A k \in DOMAIN ngparse.channels :
    (\E n \in DOMAIN merged_into : merged_into[n] = k /\ HyphenOrSuffix(n))
    => LET d == ngparse.channels[k]
       IN /\ HyphenOrSuffix(d.name)
          /\ d.name \in DOMAIN merged_into
          /\ merged_into[d.name] = k
          /\ d.info.name = d.name

\* C5 as stated: names that differ only by hyphens, one trailing suffix
\* character or case go to one record, and a preferred form wins the name.
C5_VariantsAreOneRecord ==
  /\ \A x, y \in DOMAIN merged_into :
       DifferOnlyBy(x, y) => merged_into[x] = merged_into[y]
  /\ PreferredFormWins

\* C5 amended: names that differ only by hyphens, by case, or by one
\* trailing suffix character on a name that (hyphens removed) does not
\* already end with it go to one record of parse_m3u; and if a variant of a
\* record is a preferred form, the stored name and info line are those of a
\* preferred form.
C5_VariantsAreOneRecordAmended ==
  /\ \A x, y \in DOMAIN merged_into :
       DifferOnlyByOneSuffix(x, y) =>
         /\ merged_into[x] = merged_into[y]
         /\ merged_into[x] \in DOMAIN ngparse.channels
  /\ PreferredFormWins

C5_Witness ==
  /\ npc = "written"
  /\ \E k \in DOMAIN ngparse.channels : \E n \in DOMAIN merged_into :
       /\ merged_into[n] = k
       /\ ~HyphenOrSuffix(n)
       /\ DifferOnlyByOneSuffix(n, ngparse.channels[k].name)
       /\ HyphenOrSuffix(ngparse.channels[k].name)
       /\ ngparse.channels[k].order_idx = 0
       /\ Len(ngparse.order) = 1

\* the addresses written after the info line at position i, in the order
\* written
RECURSIVE written_urls(_, _)
written_urls(lines, i) ==
  IF i > Len(lines) \/ lines[i].kind \in {"#EXTINF:", "#EXTM3U"} THEN <<>>
  ELSE IF lines[i].kind = "http" THEN <<lines[i].url>> \o written_urls(lines, i + 1)
  ELSE written_urls(lines, i + 1)

IsSorted(urls) == \A i, j \in 1..Len(urls) : i < j => urls[i] < urls[j]

\* C12: the addresses of each record are written sorted by default, and in
\* the order first seen in the input when --keep-order is set.
C12_UrlEmissionOrder ==
  npc = "written" =>
    \A i \in 1..Len(ng_output) :
      ng_output[i].kind = "#EXTINF:" =>
        LET urls == written_urls(ng_output, i + 1)
            k == get_norm_key(ng_name(ng_output[i]))
        IN IF keep_order
           THEN urls = (IF k \in DOMAIN first_seen THEN first_seen[k] ELSE <<>>)
           ELSE IsSorted(urls)

\* the name has 'CCTV', an optional hyphen and a digit somewhere
HasCctvNumber(name) ==
  \E i \in 1..Len(name) :
    /\ name[i] \in {"CCTV", "cctv"}
    /\ \/ i + 1 <= Len(name) /\ name[i + 1] \in Digits
       \/ i + 2 <= Len(name) /\ name[i + 1] = "-" /\ name[i + 2] \in Digits

\* C6: the records of the CCTV bucket are written in non-decreasing order of
\* their CCTV number, and every record without a number comes after all the
\* records that have one.
C6_CctvBucketOrder ==
  npc = "written" =>
    \A i, j \in 1..Len(final_list) :
      (i < j /\ final_list[i].final_group = CctvGroup /\ final_list[j].final_group = CctvGroup
         /\ HasCctvNumber(final_list[j].name))
      => /\ HasCctvNumber(final_list[i].name)
         /\ extract_cctv_num(final_list[i].name) <= extract_cctv_num(final_list[j].name)

\* the bucket a record belongs to by its name: 1 CCTV, 2 satellite, 3 other
BucketOf(d) == IF has_cctv(d.name) THEN 1 ELSE IF has_weishi(d.name) THEN 2 ELSE 3

\* C23: every merged record is in the final list exactly once; a name with
\* the letters CCTV in any case is in the CCTV group even with the satellite
\* marker, otherwise a name with the marker is in the satellite group,
\* otherwise the record keeps its original group; the final list is the
\* CCTV records, then the satellite records, then the others.
C23_ClassificationIsPartition ==
  npc = "written" =>
    /\ Len(final_list) = Cardinality(DOMAIN ngparse.channels)
    /\ \A k \in DOMAIN ngparse.channels :
         \E i \in 1..Len(final_list) :
           /\ final_list[i].name = ngparse.channels[k].name
           /\ final_list[i].urls = ngparse.channels[k].urls
           /\ final_list[i].info = ngparse.channels[k].info
    /\ \A i \in 1..Len(final_list) :
         final_list[i].final_group =
           (IF BucketOf(final_list[i]) = 1 THEN CctvGroup
            ELSE IF BucketOf(final_list[i]) = 2 THEN WeishiGroup
            ELSE final_list[i].original_group)
    /\ \A i, j \in 1..Len(final_list) :
         i < j => BucketOf(final_list[i]) <= BucketOf(final_list[j])

\* a record with the letters CCTV in lower case and the satellite marker,
\* a satellite record and a record of another group are all written
C23_Witness ==
  /\ npc = "written"
  /\ \E i, j, k \in 1..Len(final_list) :
       /\ has_cctv(final_list[i].name) /\ has_weishi(final_list[i].name)
       /\ final_list[i].final_group = CctvGroup
       /\ BucketOf(final_list[j]) = 2
       /\ BucketOf(final_list[k]) = 3
       /\ final_list[k].original_group = WeishiGroup

\* --------------------------------------------------- properties, extract.py
\* the keyword expression is empty once surrounding quotes and whitespace
\* are stripped
EmptyAfterStripping(expr) ==
  str_strip(strip_char(str_strip(expr), "q")) = <<>>

\* the non-empty terms of an expression around the token ch ch
Terms(expr, ch) ==
  LET pieces == split_pair(expr, ch, 1, <<>>)
  IN { str_strip(pieces[i]) : i \in 1..Len(pieces) } \ {<<>>}

\* the text satisfies the keyword expression: an empty expression never, a
\* conjunction when all its terms are in the text, a disjunction when one
\* is, a single keyword when it is in the text
Satisfies(text, expr) ==
  LET e == strip_char(str_strip(expr), "q")
  IN /\ ~EmptyAfterStripping(expr)
     /\ IF str_in(<<"&", "&">>, e) THEN \A t \in Terms(e, "&") : str_in(t, text)
        ELSE IF str_in(<<"|", "|">>, e) THEN \E t \in Terms(e, "|") : str_in(t, text)
        ELSE str_in(e, text)

\* C7: for two non-empty keywords A and B, the AND expression "A,B" matches
\* a complete record iff its metadata line contains A and its address line
\* contains B, the OR expression iff one of the two holds; directive lines
\* take no part.
C7_CompoundFilter ==
  \A r \in match_log :
    (keywords # NoKeywords /\ keywords[1] # <<>> /\ keywords[2] # <<>>)
    => r.matched = IF ex_mode = "and"
                   THEN Satisfies(r.extinf.text, keywords[1])
                        /\ Satisfies(r.url.text, keywords[2])
                   ELSE Satisfies(r.extinf.text, keywords[1])
                        \/ Satisfies(r.url.text, keywords[2])

\* the argument has two comma-separated terms and one of them is empty or
\* only whitespace
EmptyTerm(arg) ==
  LET pieces == split_comma(arg, 1, <<>>)
  IN Len(pieces) = 2 /\ (str_strip(pieces[1]) = <<>> \/ str_strip(pieces[2]) = <<>>)

\* the complete records of the file: a metadata line, directive lines, an
\* address
CompleteRecords ==
  { p \in (1..Len(ex_lines)) \X (1..Len(ex_lines)) :
      /\ p[1] < p[2]
      /\ ex_lines[p[1]].kind = "#EXTINF"
      /\ ex_lines[p[2]].kind = "addr"
      /\ \A k \in (p[1] + 1)..(p[2] - 1) : ex_lines[k].kind = "#" }

Kept(p) ==
  \E b \in 1..Len(ordered_record_pairs) :
    /\ ordered_record_pairs[b][1] = ex_lines[p[1]]
    /\ ordered_record_pairs[b][Len(ordered_record_pairs[b])] = ex_lines[p[2]]
    /\ Len(ordered_record_pairs[b]) >= 2

\* C8: with an empty term in the compound expression, AND or OR, no record
\* matches: extraction keeps no record and removal keeps every complete
\* record.
C8_EmptyTermNeverMatches ==
  (epc = "done" /\ EmptyTerm(ex_arg)) =>
    /\ \A r \in match_log : ~r.matched
    /\ ~remove_mode => \A p \in CompleteRecords : ~Kept(p)
    /\ remove_mode => \A p \in CompleteRecords : Kept(p)

\* C9: a keyword expression that is empty after stripping quotes and
\* whitespace matches no text: _check_match is false for it.
C9_EmptyKeywordNeverMatches ==
  \A r \in match_log :
    keywords # NoKeywords =>
      /\ EmptyAfterStripping(keywords[1]) => ~r.m1
      /\ EmptyAfterStripping(keywords[2]) => ~r.m2


\* ------------------------------------------------- properties, every parser
\* the info lines of a written text that no address follows (directive
\* lines may stand between)
RECURSIVE has_address(_, _)
has_address(lines, i) ==
  IF i > Len(lines) THEN FALSE
  ELSE IF lines[i].kind = "http" THEN TRUE
  ELSE IF lines[i].kind = "#" THEN has_address(lines, i + 1)
  ELSE FALSE

InfoLinesHaveAddress(lines) ==
  \A i \in 1..Len(lines) : lines[i].kind = "#EXTINF:" => has_address(lines, i + 1)

\* C11: a metadata line that no address follows before the next metadata
\* line or the end of the input never becomes a record: every record of a
\* parse result and every info line of an output has an address, and the
\* record that starts at the next metadata line is still parsed.
C11_NoRecordWithoutAddress ==
  /\ \A k \in DOMAIN current_map : current_map[k].urls # {}
  /\ mpc = "written" => InfoLinesHaveAddress(output_lines)
  /\ npc = "written" =>
       /\ \A k \in DOMAIN ngparse.channels : ngparse.channels[k].urls # {}
       /\ InfoLinesHaveAddress(ng_output)
  /\ \A b \in 1..Len(ordered_record_pairs) :
       ordered_record_pairs[b][1].kind = "#EXTINF"
       => ordered_record_pairs[b][Len(ordered_record_pairs[b])].kind = "addr"
  /\ (epc = "done" /\ ex_i >= Len(ex_lines)) =>
       \A p \in CompleteRecords :
         \E r \in match_log : r.extinf = ex_lines[p[1]] /\ r.url = ex_lines[p[2]]


\* ------------------------------------------------ properties, either merger
\* C13: a source that cannot be read ends the run in failure with the
\* destination neither written nor replaced: in extract.py a read failure
\* inside extract_keyword_lines never leads to a write of the output, and
\* in m3u_merger a missing input among several never leads to an output
\* built from the remaining inputs.
C13_UnreadableSourceAborts ==
  /\ (ipc # "idle" /\ ~readable) =>
        /\ dest = dest_before
        /\ ~temp_file.exists
        /\ ipc \notin {"write", "replace", "finished"}
        /\ exit_code # 0
  /\ skipped => mpc \notin {"written", "reparsed"}

\* C14: when writing the result fails at any step, with the destination
\* equal to the source or not, the run reports failure, no temporary file
\* remains, and a destination that existed before the run has exactly the
\* content it had before the run.
C14_WriteFailureIsClean ==
  ipc = "cleaned" =>
    /\ exit_code = 1
    /\ ~temp_file.exists
    /\ dest_before.exists => dest = dest_before

\* the distinct complete records of the input: a metadata line and the
\* address that follows it
InputRecords ==
  { <<ex_lines[i], probe(ex_lines, i + 1, <<>>).url>> :
      i \in { j \in 1..Len(ex_lines) :
                /\ ex_lines[j].kind = "#EXTINF"
                /\ probe(ex_lines, j + 1, <<>>).url.kind # "" } }

\* C15: for every input and keyword expression, each distinct complete
\* record of the input is kept by exactly one of the two runs, the
\* extraction run and the removal run with the same expression and options.
C15_RemovalIsComplement ==
  (runs = 2 /\ epc = "done") =>
    \A p \in InputRecords : (p \in prev_kept) # (p \in seen_record_pairs)

IsInfo(l) == l.kind \in {"#EXTINF", "#EXTINF:"}
IsBlank(l) == l.kind = ""
BlankLines(text, a, b) == { k \in a..b : IsBlank(text[k]) }

\* between every two consecutive records of a text exactly one line is
\* blank, and its last line is not blank
OneBlankBetweenRecords(text) ==
  /\ \A i, j \in 1..Len(text) :
       (/\ i < j
        /\ IsInfo(text[i])
        /\ IsInfo(text[j])
        /\ \A k \in (i + 1)..(j - 1) : ~IsInfo(text[k]))
       => Cardinality(BlankLines(text, i + 1, j - 1)) = 1
  /\ text # <<>> => ~IsBlank(text[Len(text)])

\* C16: in the text each tool writes, between every two consecutive records
\* there is exactly one blank line, and the text does not end with one.
C16_RecordSeparation ==
  /\ epc = "done" => OneBlankBetweenRecords(result)
  /\ mpc = "written" => OneBlankBetweenRecords(output_lines)
  /\ npc = "written" => OneBlankBetweenRecords(ng_output)

\* C16 as the code has it: in the text of extract.py the blocks (a record,
\* or in removal mode a line outside any record) are separated by exactly
\* one blank line each and the text does not end with a blank line; the
\* texts of m3u_merger and m3u_mergerng have no blank line at all.
C16_RecordSeparationAmended ==
  /\ epc = "done" =>
       /\ \A i \in 1..Len(result) :
            IsBlank(result[i]) =>
              /\ 1 < i
              /\ i < Len(result)
              /\ ~IsBlank(result[i + 1])
       /\ \A i \in 2..Len(result) : IsInfo(result[i]) => IsBlank(result[i - 1])
       /\ Cardinality(BlankLines(result, 1, Len(result)))
            = (IF ordered_record_pairs = <<>> THEN 0
               ELSE Len(ordered_record_pairs) - 1)
  /\ mpc = "written" => BlankLines(output_lines, 1, Len(output_lines)) = {}
  /\ npc = "written" => BlankLines(ng_output, 1, Len(ng_output)) = {}

\* extract.py has written two records
C16_Witness ==
  /\ epc = "done"
  /\ Len(ordered_record_pairs) >= 2
  /\ \E i, j \in 1..Len(result) : i < j /\ IsInfo(result[i]) /\ IsInfo(result[j])

\* resolve_urls_with_retry has returned, or was never called
Returned == rpc \notin {"start", "round"}
\* the addresses a list holds
Elements(lst) == { lst[i] : i \in 1..Len(lst) }

RoundsWithinBudget == rounds <= max_retries + 1
RetryOnlyFailed ==
  (rounds >= 1 /\ rounds' > rounds) => Elements(rd_urls') \subseteq Elements(failed_urls)
StillFailingAreUnresolved ==
  rpc = "resolved" =>
    \A u \in Elements(failed_urls) :
      u \in DOMAIN resolved_info /\ ~resolved_info[u].success

\* C17: for every outcome of the probes resolve_urls_with_retry returns,
\* after at most max_retries + 1 rounds; each round after the first probes
\* only addresses that failed in the round before; and every address still
\* failing after the last round has an entry with succeeded = false.
C17_ResolutionTerminates ==
  /\ <>Returned
  /\ []RoundsWithinBudget
  /\ [][RetryOnlyFailed]_vars
  /\ []StillFailingAreUnresolved

\* no address is twice in a list
Distinct(lst) == \A i, j \in 1..Len(lst) : i # j => lst[i] # lst[j]

\* C18: in every round each probe writes a key of the result map that no
\* other probe of that round writes: the addresses submitted are distinct,
\* one probe for each address of the playlist.
C18_DisjointResultKeys ==
  rpc = "round" =>
    /\ Distinct(rd_urls)
    /\ rounds = 1 => Elements(rd_urls) = DOMAIN url_to_line_indices

\* line i of the input is an address whose final entry is succeeded
Succeeded(i) ==
  /\ url_pattern_match(rd_strip(rd_input[i]))
  /\ rd_input[i].url \in DOMAIN resolved_info
  /\ resolved_info[rd_input[i].url].success

\* C19: in the written output the number and order of lines are unchanged,
\* and every line that is not an address, or is an address whose final
\* entry is not succeeded, is identical to the input line: only a line
\* whose final entry is succeeded is replaced.
C19_PassThrough ==
  rpc = "written" =>
    /\ Len(rd_output) = Len(rd_input)
    /\ \A i \in 1..Len(rd_input) : ~Succeeded(i) => rd_output[i] = rd_input[i]

\* C19 as the code has it: such a line is the input line without the white
\* space around it.
C19_PassThroughAmended ==
  rpc = "written" =>
    /\ Len(rd_output) = Len(rd_input)
    /\ \A i \in 1..Len(rd_input) :
         ~Succeeded(i) => rd_output[i] = rd_strip(rd_input[i])

\* written: an address that failed after a redirect, an address that was
\* resolved to another one, and a line with white space around it
C19_Witness ==
  /\ rpc = "written"
  /\ \E i \in 1..Len(rd_input) :
       /\ url_pattern_match(rd_strip(rd_input[i]))
       /\ ~Succeeded(i)
       /\ resolved_info[rd_input[i].url].final_url # rd_input[i].url
  /\ \E i \in 1..Len(rd_input) : Succeeded(i) /\ rd_output[i] # rd_strip(rd_input[i])
  /\ \E i \in 1..Len(rd_input) : rd_input[i].pad

\* in a file, line i is a metadata line, the lines after it up to line j
\* start with '#' and are no metadata lines, and line j does not start
\* with '#'
RecordAt(file, i, j) ==
  /\ i < j
  /\ IsInfo(file[i])
  /\ \A k \in (i + 1)..(j - 1) : file[k].kind \in {"#", "#EXTM3U"}
  /\ file[j].kind \in {"http", "text", "addr"}

\* the key under which a merger stores the record of a metadata line
KeyOf(tool, info) ==
  IF tool = "m3u_merger" THEN ref_key(info) ELSE get_norm_key(ng_name(info))

\* C21: in every parser, a metadata line followed by k >= 0 lines that
\* start with '#' and then by a line that does not, yields a record for
\* that metadata line whose addresses contain that line: the directive
\* lines in between never cause the address to be dropped.
C21_DirectivesKeepTheAddress ==
  /\ ppc = "parsed" =>
       \A i, j \in 1..Len(pf_file) :
         RecordAt(pf_file, i, j) =>
           /\ KeyOf(pf_tool, pf_file[i]) \in DOMAIN pf_parsed
           /\ pf_file[j].kind = "http"
           /\ pf_file[j].url \in pf_parsed[KeyOf(pf_tool, pf_file[i])]
  /\ (epc = "done" /\ ~parse_keywords(ex_mode, ex_arg).error) =>
       \A i, j \in 1..Len(ex_lines) :
         RecordAt(ex_lines, i, j) =>
           \E r \in match_log : r.extinf = ex_lines[i] /\ r.url = ex_lines[j]

\* an expression without the quotes and white space around it
RECURSIVE Stripped(_)
Stripped(expr) ==
  LET e == strip_char(str_strip(expr), "q")
  IN IF e = expr THEN e ELSE Stripped(e)

\* the reference evaluation of a keyword expression on a text
Reference(text, expr) ==
  LET e == Stripped(expr)
  IN IF str_in(<<"&", "&">>, e) THEN \A t \in Terms(e, "&") : str_in(t, text)
     ELSE IF str_in(<<"|", "|">>, e) THEN \E t \in Terms(e, "|") : str_in(t, text)
     ELSE str_in(e, text)

\* C22: for every text and every expression that is not empty once the
\* quotes and white space around it are stripped, _check_match gives the
\* reference: with "&&" in the stripped expression all its non-empty terms
\* are in the text, else with "||" one of them is, else the stripped
\* expression itself is in the text.
C22_CheckMatchIsReference ==
  (cpc = "returned" /\ Stripped(cm_keyword) # <<>>) =>
    cm_result = Reference(cm_text, cm_keyword)

\* the complete records of a text: the places of a metadata line and of
\* the first line after it that is no directive
RecordsIn(text) ==
  { p \in (1..Len(text)) \X (1..Len(text)) : RecordAt(text, p[1], p[2]) }
SamePair(text, p, other, q) ==
  text[p[1]] = other[q[1]] /\ text[p[2]] = other[q[2]]
Directives(text, p) == SubSeq(text, p[1] + 1, p[2] - 1)

\* the first occurrence in the input of the pair of the output record p
FirstOccurrence(p) ==
  CHOOSE f \in RecordsIn(ex_lines) :
    /\ SamePair(ex_lines, f, result, p)
    /\ \A g \in RecordsIn(ex_lines) : SamePair(ex_lines, g, result, p) => f[1] <= g[1]

C26_ResolvedStaysResolved ==
  /\ \A p, q \in probes : (p.url = q.url /\ p.success) => q.round <= p.round
  /\ Returned =>
       /\ \A p \in probes :
            p.success => /\ resolved_info[p.url].success
                         /\ resolved_info[p.url].final_url = p.final_url
       /\ \A u \in DOMAIN resolved_info :
            resolved_info[u].success <=> \E p \in probes : p.url = u /\ p.success

\* the header lines of a written text are the one line first, if any
HeaderIs(lines, first) ==
  /\ \A i \in 1..Len(lines) : lines[i].kind = "#EXTM3U" => i = 1
  /\ IF first.kind = "#EXTM3U"
     THEN lines # <<>> /\ lines[1] = first
     ELSE lines = <<>> \/ lines[1].kind # "#EXTM3U"

\* C20: the header line of the output is the first header line seen, over
\* all sources and within a source; a later header line never replaces it,
\* and with no header line in any source the output has none.
C20_FirstHeaderIsKept ==
  /\ mpc = "written" => HeaderIs(output_lines, first_header)
  /\ npc = "written" => HeaderIs(ng_output, ng_first_header)

MergerPairs ==
  { <<n, g, final_channels_data[g].channels[n].urls>> :
      <<n, g>> \in { k \in UNION { {<<m, h>> : m \in DOMAIN final_channels_data[h].channels} :
                                    h \in DOMAIN final_channels_data } : TRUE } }

ReparsedPairs ==
  { <<k[1], k[2], reparsed.channels_map[k].urls>> : k \in DOMAIN reparsed.channels_map }

NgPairs(channels) == { <<k, channels[k].urls>> : k \in DOMAIN channels }

\* C10: the text written, parsed again by the parser of the same tool, holds
\* the same (identity key, URL set) pairs as the merged structure it was
\* written from.
C10_RoundTrip ==
  /\ mpc = "reparsed" => ReparsedPairs = MergerPairs
  /\ npc = "reparsed" => NgPairs(ng_reparsed.channels) = NgPairs(ngparse.channels)

C10_Witness ==
  \/ /\ mpc = "reparsed"
     /\ \E p \in MergerPairs : Cardinality(p[3]) = 2
  \/ /\ npc = "reparsed"
     /\ Cardinality(NgPairs(ngparse.channels)) >= 2
     /\ \E p \in NgPairs(ngparse.channels) : Cardinality(p[2]) = 2

====
